---------------------------- MODULE Spec2Model ----------------------------
(***************************************************************************)
(* GridZen campus VPP back end: the dispatch optimizer                     *)
(* (backend/optimization.py), the two writers of the battery SOC           *)
(* (backend/simulator.py generate_reading, backend/main.py ingest_data)    *)
(* and the rolling-window ingestion pipeline (backend/engine/ingestion.py).*)
(*                                                                         *)
(* Number representation.  The program computes in binary floating point;  *)
(* the model computes the same expressions exactly, in fixed point:        *)
(*   - a rounded power (the result of round(x, 2)) is an integer number of *)
(*     centi-kW (0.01 kW);                                                 *)
(*   - an unrounded power is an integer number of "fine" units, PwScale    *)
(*     fine units to one centi-kW;                                         *)
(*   - a state of charge is an integer number of SOC units, SocScale units *)
(*     to one percent.  One SOC unit is the charge that 0.01 kW moves in   *)
(*     one 5 s tick of a BATTERY_CAP_KWH battery.                          *)
(*   - round(x, n) is round-half-to-even, as Python's round is.            *)
(***************************************************************************)
EXTENDS Integers, Sequences, FiniteSets, TLC

VARIABLES
    \* ---- optimizer under test (pure function, called at varying times)
    args,            \* the argument tuple of optimize_power_flow (the raw
                     \* payload where process_sensor_payload is under test)
    now,             \* wall clock, local time (Asia/Kolkata), minutes of day
    calls,           \* results of the calls made so far, with their call time
    \* ---- process-wide state of main.py / simulator.py
    sensor_state,    \* SensorState.battery_soc_pct, SOC units
    current_opt_config, \* OptimizationConfig: mode, manual_override_kw
    latest_reading,  \* main.latest_reading
    tickPc,          \* position of the tick() coroutine
    tickLocal,       \* locals of generate_reading between decision and write
    ingestPc,        \* position of the ingest_data() coroutine
    ingestLocal,     \* locals of ingest_data between decision and write
    lastUpdate,      \* the last write of the SOC: who, from what, to what
    nUpdates,        \* number of SOC writes so far
    \* ---- one IngestionPipeline instance
    maxlen,          \* capacity of self._window (deque maxlen)
    window,          \* self._window
    agg_buf,         \* self._agg_buf
    aggs,            \* self._aggs
    agg_cutoff,      \* self._agg_cutoff (None = -1), pipeline clock units
    clock,           \* datetime.now(timezone.utc) seen by the pipeline
    flags,           \* the anomaly flags returned by the last ingest
    hist,            \* every reading ingested so far, with its ingest time
    agg_buf_ids,     \* for each reading in agg_buf, its position in hist
    agg_members,     \* for each bin in aggs, the hist positions averaged
    lock,            \* self._lock: the thread holding it, or Free
    thr              \* the threads calling the pipeline: position and locals

optVars  == <<args, now, calls>>
gridVars == <<sensor_state, current_opt_config, latest_reading, tickPc,
              tickLocal, ingestPc, ingestLocal, lastUpdate, nUpdates>>
pipeVars == <<maxlen, window, agg_buf, aggs, agg_cutoff, clock, flags, hist,
              agg_buf_ids, agg_members, lock, thr>>
vars     == <<optVars, gridVars, pipeVars>>

---------------------------------------------------------------------------
\* Arithmetic helpers

Min(a, b) == IF a <= b THEN a ELSE b

Max(a, b) == IF a >= b THEN a ELSE b

Abs(a) == IF a < 0 THEN -a ELSE a

\* floor(n / d) for d > 0 and any integer n
FloorDiv(n, d) == IF n >= 0 THEN n \div d ELSE -((-n + d - 1) \div d)

\* Python round(): n / d rounded to the nearest integer, ties to the even one
RoundHalfEven(n, d) ==
    LET q == FloorDiv(n, d)
        r == n - q * d
    IN  IF 2 * r < d THEN q
        ELSE IF 2 * r > d THEN q + 1
        ELSE IF q % 2 = 0 THEN q ELSE q + 1

---------------------------------------------------------------------------
\* Program constants

BATTERY_CAP_KWH == 80

BATTERY_MAX_KW == 20

GRID_MAX_EXPORT_KW == 50

\* the tick length 5 / 3600 h, as ticks per hour
TicksPerHour == 3600 \div 5

\* SOC units per percent
SocScale == TicksPerHour * BATTERY_CAP_KWH

\* fine power units per centi-kW
PwScale == SocScale \div TicksPerHour

\* fine units of x kW
Kw(x) == x * 100 * PwScale

\* SOC units of x percent
Pct(x) == x * SocScale

\* round(x, 2) of an unrounded power: fine units to centi-kW
Round2(x) == RoundHalfEven(x, PwScale)

\* round(x, 1) of a rounded power: centi-kW to deci-kW
Round1(c) == RoundHalfEven(c, 10)


---------------------------------------------------------------------------
\* backend/optimization.py

Modes == {"AUTO", "MANUAL_CHARGE", "MANUAL_DISCHARGE"}

\* is_peak_pricing_hour = 14 <= local_time.hour <= 18, t in minutes of day
is_peak_pricing_hour(t) ==
    LET hour == t \div 60
    IN  14 <= hour /\ hour <= 18

\* charge_limit with the headroom taken to 95 % SOC
charge_limit_to_95(soc, cap) == (Pct(95) - soc) * cap

\* (100.0 - battery_soc_pct) / 100.0 * battery_cap_kwh / (5 / 3600), fine units
charge_limit(soc, cap) == (Pct(100) - soc) * cap

\* discharge_limit down to an empty battery, without the 5 % floor
discharge_limit_to_empty(soc, cap) == soc * cap

\* (battery_soc_pct - 5.0) / 100.0 * battery_cap_kwh / (5 / 3600), fine units
discharge_limit(soc, cap) == (soc - Pct(5)) * cap

\* manual_rate without the cap at the rated power
manual_rate_uncapped(max_pw, override) ==
    IF override > 0 THEN override ELSE max_pw

\* min(battery_max_pw_kw, manual_override_kw if manual_override_kw > 0
\*                         else battery_max_pw_kw)
manual_rate(max_pw, override) ==
    Min(max_pw, IF override > 0 THEN override ELSE max_pw)

\* the dict optimize_power_flow returns; powers in centi-kW, the curtailed
\* amount that the CURTAILING_GEN_<x>KW label carries in deci-kW
Dispatch(bp, imp, exp, strategy, curtailed) ==
    [battery_power_kw |-> bp, grid_import_kw |-> imp, grid_export_kw |-> exp,
     strategy |-> strategy, curtailed_kw |-> curtailed]

\* manual_charge with the export computed from the surplus alone
manual_charge_export_gross(surplus_kw, soc, cap, max_pw, override) ==
    LET charge_rate   == manual_rate(max_pw, override)
        actual_charge == Min(charge_rate, charge_limit(soc, cap))
        grid_import   == Max(0, actual_charge - surplus_kw)
        grid_export   == Max(0, surplus_kw)
    IN  Dispatch(Round2(actual_charge), Round2(grid_import),
                 Round2(grid_export), "MANUAL_CHARGE", 0)

manual_charge(surplus_kw, soc, cap, max_pw, override) ==
    LET charge_rate   == manual_rate(max_pw, override)
        actual_charge == Min(charge_rate, charge_limit(soc, cap))
        grid_import   == Max(0, actual_charge - surplus_kw)
        grid_export   == Max(0, surplus_kw - actual_charge)
    IN  Dispatch(Round2(actual_charge), Round2(grid_import),
                 Round2(grid_export), "MANUAL_CHARGE", 0)

\* manual_discharge without the floor at 0 of the discharge
manual_discharge_unfloored(surplus_kw, soc, cap, max_pw, override) ==
    LET discharge_rate   == manual_rate(max_pw, override)
        actual_discharge == Min(discharge_rate, discharge_limit(soc, cap))
        total_available  == surplus_kw + actual_discharge
        grid_import      == Max(0, -total_available)
        grid_export      == Max(0, total_available)
    IN  Dispatch(-Round2(actual_discharge), Round2(grid_import),
                 Round2(grid_export), "MANUAL_DISCHARGE", 0)

manual_discharge(surplus_kw, soc, cap, max_pw, override) ==
    LET discharge_rate   == manual_rate(max_pw, override)
        actual_discharge == Max(0, Min(discharge_rate, discharge_limit(soc, cap)))
        total_available  == surplus_kw + actual_discharge
        grid_import      == Max(0, -total_available)
        grid_export      == Max(0, total_available)
    IN  Dispatch(-Round2(actual_discharge), Round2(grid_import),
                 Round2(grid_export), "MANUAL_DISCHARGE", 0)

\* curtail that labels the result and leaves the export as it was
curtail_label_only(battery_pw_kw, export_kw, strategy) ==
    IF export_kw > GRID_MAX_EXPORT_KW * 100
    THEN Dispatch(battery_pw_kw, 0, export_kw, "CURTAILING_GEN",
                  Round1(export_kw - GRID_MAX_EXPORT_KW * 100))
    ELSE Dispatch(battery_pw_kw, 0, export_kw, strategy, 0)

\* the curtailment step of the surplus branch; export_kw in centi-kW
curtail(battery_pw_kw, export_kw, strategy) ==
    IF export_kw > GRID_MAX_EXPORT_KW * 100
    THEN Dispatch(battery_pw_kw, 0, GRID_MAX_EXPORT_KW * 100, "CURTAILING_GEN",
                  Round1(export_kw - GRID_MAX_EXPORT_KW * 100))
    ELSE Dispatch(battery_pw_kw, 0, export_kw, strategy, 0)

\* delayed_charge with the thresholds included
delayed_charge_inclusive(soc, forecast, peak) ==
    forecast >= 15 /\ soc >= Pct(70) /\ peak

\* the exception of the surplus branch
delayed_charge(soc, forecast, peak) ==
    forecast > 15 /\ soc > Pct(70) /\ peak

\* save_battery at any hour
save_battery_any_hour(soc, forecast, peak) ==
    forecast < -10 /\ soc < Pct(40)

\* the exception of the deficit branch
save_battery(soc, forecast, peak) ==
    forecast < -10 /\ ~peak /\ soc < Pct(40)

\* auto_surplus charging without regard to the rated power
auto_surplus_unrated(surplus_kw, soc, cap, max_pw, forecast, peak) ==
    LET delayed   == delayed_charge(soc, forecast, peak)
        charge_kw == IF delayed THEN 0
                     ELSE Min(surplus_kw, charge_limit(soc, cap))
        battery_pw_kw     == Round2(Max(0, charge_kw))
        remaining_surplus == surplus_kw - battery_pw_kw * PwScale
        grid_export_kw    == Round2(Max(0, remaining_surplus))
    IN  curtail(battery_pw_kw, grid_export_kw,
                IF delayed THEN "DELAYED_CHARGE_EXPORTING"
                ELSE "NORMAL_BALANCING")

auto_surplus(surplus_kw, soc, cap, max_pw, forecast, peak) ==
    LET delayed   == delayed_charge(soc, forecast, peak)
        charge_kw == IF delayed THEN 0
                     ELSE Min(surplus_kw, Min(max_pw, charge_limit(soc, cap)))
        battery_pw_kw     == Round2(Max(0, charge_kw))
        remaining_surplus == surplus_kw - battery_pw_kw * PwScale
        grid_export_kw    == Round2(Max(0, remaining_surplus))
    IN  curtail(battery_pw_kw, grid_export_kw,
                IF delayed THEN "DELAYED_CHARGE_EXPORTING"
                ELSE "NORMAL_BALANCING")

\* auto_deficit importing the whole deficit, the discharge left out of the
\* grid figure
auto_deficit_import_gross(surplus_kw, soc, cap, max_pw, forecast, peak) ==
    LET deficit_kw == Abs(surplus_kw)
        saving     == save_battery(soc, forecast, peak)
        discharge_kw == Max(0, IF saving THEN 0
                               ELSE Min(deficit_kw,
                                        Min(max_pw, discharge_limit(soc, cap))))
        remaining_deficit == deficit_kw - discharge_kw
        strategy == IF peak /\ remaining_deficit > 0
                    THEN "PEAK_GRID_IMPORT_WARNING"
                    ELSE IF saving THEN "GRID_IMPORT_SAVE_BATTERY"
                    ELSE "NORMAL_BALANCING"
    IN  Dispatch(-Round2(discharge_kw), Round2(deficit_kw), 0, strategy, 0)

\* auto_deficit with the peak label set whether or not a deficit remains
auto_deficit_peak_label_always(surplus_kw, soc, cap, max_pw, forecast, peak) ==
    LET deficit_kw == Abs(surplus_kw)
        saving     == save_battery(soc, forecast, peak)
        discharge_kw == Max(0, IF saving THEN 0
                               ELSE Min(deficit_kw,
                                        Min(max_pw, discharge_limit(soc, cap))))
        remaining_deficit == deficit_kw - discharge_kw
        strategy == IF peak
                    THEN "PEAK_GRID_IMPORT_WARNING"
                    ELSE IF saving THEN "GRID_IMPORT_SAVE_BATTERY"
                    ELSE "NORMAL_BALANCING"
    IN  Dispatch(-Round2(discharge_kw), Round2(Max(0, remaining_deficit)), 0,
                 strategy, 0)

auto_deficit(surplus_kw, soc, cap, max_pw, forecast, peak) ==
    LET deficit_kw == Abs(surplus_kw)
        saving     == save_battery(soc, forecast, peak)
        discharge_kw == Max(0, IF saving THEN 0
                               ELSE Min(deficit_kw,
                                        Min(max_pw, discharge_limit(soc, cap))))
        remaining_deficit == deficit_kw - discharge_kw
        strategy == IF peak /\ remaining_deficit > 0
                    THEN "PEAK_GRID_IMPORT_WARNING"
                    ELSE IF saving THEN "GRID_IMPORT_SAVE_BATTERY"
                    ELSE "NORMAL_BALANCING"
    IN  Dispatch(-Round2(discharge_kw), Round2(Max(0, remaining_deficit)), 0,
                 strategy, 0)

\* optimize_power_flow with a memory: after its first call it holds the
\* battery idle (rated power taken as 0)
optimize_power_flow_stateful(solar, wind, load, soc, cap, max_pw, forecast, mode, override, t) ==
    LET total_gen  == solar + wind
        surplus_kw == total_gen - load
        peak       == is_peak_pricing_hour(t)
        rated      == IF calls = <<>> THEN max_pw ELSE 0
    IN  IF mode = "MANUAL_CHARGE"
        THEN manual_charge(surplus_kw, soc, cap, rated, override)
        ELSE IF mode = "MANUAL_DISCHARGE"
        THEN manual_discharge(surplus_kw, soc, cap, rated, override)
        ELSE IF surplus_kw > 0
        THEN auto_surplus(surplus_kw, soc, cap, rated, forecast, peak)
        ELSE auto_deficit(surplus_kw, soc, cap, rated, forecast, peak)

\* solar, wind, load, max_pw, override: fine units; soc: SOC units; cap: kWh;
\* forecast: kWh; t: the wall clock the call reads (datetime.now)
optimize_power_flow(solar, wind, load, soc, cap, max_pw, forecast, mode, override, t) ==
    LET total_gen  == solar + wind
        surplus_kw == total_gen - load
        peak       == is_peak_pricing_hour(t)
    IN  IF mode = "MANUAL_CHARGE"
        THEN manual_charge(surplus_kw, soc, cap, max_pw, override)
        ELSE IF mode = "MANUAL_DISCHARGE"
        THEN manual_discharge(surplus_kw, soc, cap, max_pw, override)
        ELSE IF surplus_kw > 0
        THEN auto_surplus(surplus_kw, soc, cap, max_pw, forecast, peak)
        ELSE auto_deficit(surplus_kw, soc, cap, max_pw, forecast, peak)

---------------------------------------------------------------------------
\* Initial values of the three groups of variables

\* simulator.py SensorState(), main.py OptimizationConfig(), latest_reading = {}
GridStart ==
    /\ sensor_state = Pct(50)
    /\ current_opt_config = [mode |-> "AUTO", manual_override_kw |-> 0]
    /\ latest_reading = <<>>
    /\ tickPc = "idle"
    /\ tickLocal = <<>>
    /\ ingestPc = "idle"
    /\ ingestLocal = <<>>
    /\ lastUpdate = [path |-> "none"]
    /\ nUpdates = 0

\* self._agg_cutoff before the first ingest
None == -1

\* self._lock held by no thread
Free == 0

\* IngestionPipeline.__init__
PipeStart(n) ==
    /\ maxlen = n
    /\ window = <<>>
    /\ agg_buf = <<>>
    /\ aggs = <<>>
    /\ agg_cutoff = None
    /\ clock = 0
    /\ flags = <<>>
    /\ hist = <<>>
    /\ agg_buf_ids = <<>>
    /\ agg_members = <<>>
    /\ lock = Free
    /\ thr = <<>>

OptStart ==
    /\ args = <<>>
    /\ now = 0
    /\ calls = <<>>

---------------------------------------------------------------------------
\* The optimizer called on sampled arguments at sampled wall-clock times

\* number of calls made with one argument tuple
MaxCalls == 2

SolarKw == {Kw(0), Kw(10), Kw(40), Kw(100)}

\* 0, 0.00375 kW and 0.00625 kW: powers that round(x, 2) changes, and 0.06 kW,
\* which round(x, 1) changes.  No sampled power lies exactly half way between
\* two multiples of 0.01 kW: there the program's result depends on the binary
\* representation of the float.
WindKw == {0, 30, 50, 6 * PwScale}

LoadKw == {Kw(0), Kw(10), Kw(20), Kw(30), Kw(50)}

\* with capacity 1 kWh, 5 % + 1040 leaves 0.13 kW above the floor and
\* 5 % + 1060 leaves 0.1325 kW, a power that round(x, 2) changes
SocPct == {Pct(3), Pct(5), Pct(5) + 1040, Pct(5) + 1060, Pct(40) - 576,
           Pct(40), Pct(50), Pct(70), Pct(75), Pct(100) - 500, Pct(100)}

CapKwh == {BATTERY_CAP_KWH, 1}

RatedKw == {Kw(BATTERY_MAX_KW), Kw(5)}

ForecastKwh == {-11, -10, 0, 15, 16}

OverrideKw == {-Kw(5), 0, Kw(5), Kw(1000)}

\* local times 13:59, 14:00, 18:30, 19:00
Times == <<13 * 60 + 59, 14 * 60, 18 * 60 + 30, 19 * 60>>

OptArgs ==
    {a \in [solar : SolarKw, wind : WindKw, load : LoadKw, soc : SocPct,
            cap : CapKwh, max_pw : RatedKw, forecast : ForecastKwh,
            mode : Modes, override : OverrideKw] :
        /\ a.mode = "AUTO" => a.override = 0
        /\ a.mode # "AUTO" => a.forecast \in {0, 16}
        /\ (a.cap # BATTERY_CAP_KWH \/ a.max_pw # Kw(BATTERY_MAX_KW))
              => (a.wind \in {0, 30} /\ a.forecast = 0)}

Decide(a, t) ==
    optimize_power_flow(a.solar, a.wind, a.load, a.soc, a.cap, a.max_pw,
                        a.forecast, a.mode, a.override, t)

OptInit ==
    /\ args \in OptArgs
    /\ now = Times[1]
    /\ calls = <<>>
    /\ GridStart
    /\ PipeStart(0)

\* one call of optimize_power_flow with the arguments args, made at a
\* wall-clock time t not earlier than the last one
OptCall ==
    /\ Len(calls) < MaxCalls
    /\ \E i \in DOMAIN Times :
          /\ Times[i] >= now
          /\ now' = Times[i]
          /\ calls' = Append(calls, [time |-> Times[i],
                                     result |-> Decide(args, Times[i])])
    /\ UNCHANGED <<args, gridVars, pipeVars>>

OptNext == OptCall

SpecOpt == OptInit /\ [][OptNext]_vars

---------------------------------------------------------------------------
\* backend/ingestion.py

\* raw_payload.get(f, default)
Get(raw, f, default) == IF f \in DOMAIN raw THEN raw[f] ELSE default

\* process_sensor_payload without its max(0, .) and min(100, .) clamps: the
\* payload's values, or the defaults, as they are
process_sensor_payload_unclamped(raw) ==
    LET processed_reading ==
            [solar_kw             |-> Get(raw, "solar_kw", 0),
             wind_kw              |-> Get(raw, "wind_kw", 0),
             total_generation_kw  |-> Get(raw, "total_generation_kw", 0),
             load_kw              |-> Get(raw, "load_kw", 0),
             battery_soc_pct      |-> Get(raw, "battery_soc_pct", Pct(50)),
             battery_power_kw     |-> Get(raw, "battery_power_kw", 0),
             grid_import_kw       |-> Get(raw, "grid_import_kw", 0),
             grid_export_kw       |-> Get(raw, "grid_export_kw", 0),
             self_consumption_pct |-> Get(raw, "self_consumption_pct", 0),
             co2_saved_kg         |-> Get(raw, "co2_saved_kg", 0),
             cost_saved_inr       |-> Get(raw, "cost_saved_inr", 0)]
    IN  IF "active_strategy" \in DOMAIN raw
        THEN processed_reading @@ [active_strategy |-> raw.active_strategy]
        ELSE processed_reading

\* process_sensor_payload: powers in fine units, battery_soc_pct in SOC
\* units, self_consumption_pct in 0.1 %, co2_saved_kg and cost_saved_inr in
\* 0.0001; active_strategy is kept only when the payload carries one
process_sensor_payload(raw) ==
    LET processed_reading ==
            [solar_kw             |-> Max(0, Get(raw, "solar_kw", 0)),
             wind_kw              |-> Max(0, Get(raw, "wind_kw", 0)),
             total_generation_kw  |-> Max(0, Get(raw, "total_generation_kw", 0)),
             load_kw              |-> Max(0, Get(raw, "load_kw", 0)),
             battery_soc_pct      |-> Max(0, Min(Pct(100),
                                        Get(raw, "battery_soc_pct", Pct(50)))),
             battery_power_kw     |-> Get(raw, "battery_power_kw", 0),
             grid_import_kw       |-> Max(0, Get(raw, "grid_import_kw", 0)),
             grid_export_kw       |-> Max(0, Get(raw, "grid_export_kw", 0)),
             self_consumption_pct |-> Max(0, Min(1000,
                                        Get(raw, "self_consumption_pct", 0))),
             co2_saved_kg         |-> Get(raw, "co2_saved_kg", 0),
             cost_saved_inr       |-> Get(raw, "cost_saved_inr", 0)]
    IN  IF "active_strategy" \in DOMAIN raw
        THEN processed_reading @@ [active_strategy |-> raw.active_strategy]
        ELSE processed_reading

---------------------------------------------------------------------------
\* process_sensor_payload under test: one raw payload, carrying any subset of
\* the clamped fields with negative, zero, ordinary and oversized values, is
\* normalised once.  args is the raw payload, calls the normalised reading.

\* the fields process_sensor_payload clamps from below, and the SOC
PowerFields ==
    {"solar_kw", "wind_kw", "load_kw", "grid_import_kw", "grid_export_kw"}

RawPowers == {-Kw(5), 0, Kw(10)}

RawSocs == {-Pct(10), Pct(50), Pct(120)}

RawPayloads ==
    UNION {{raw \in [present -> RawPowers \cup RawSocs] :
                \A f \in present :
                    raw[f] \in (IF f = "battery_soc_pct" THEN RawSocs
                                ELSE RawPowers)} :
           present \in SUBSET (PowerFields \cup {"battery_soc_pct"})}

NormalizeInit ==
    /\ args \in RawPayloads
    /\ now = Times[1]
    /\ calls = <<>>
    /\ GridStart
    /\ PipeStart(0)

\* one call of process_sensor_payload with the raw payload args
Normalize ==
    /\ calls = <<>>
    /\ calls' = <<[raw |-> args, reading |-> process_sensor_payload(args)]>>
    /\ UNCHANGED <<args, now, gridVars, pipeVars>>

NormalizeNext == Normalize

SpecNormalize == NormalizeInit /\ [][NormalizeNext]_vars

---------------------------------------------------------------------------
\* backend/simulator.py generate_recommendations: five rules, each appending
\* one recommendation, and OPTIMAL when none did.  Powers in fine units, SOC
\* in SOC units, the forecast in kWh, the hour as datetime.now(utc).hour.

\* battery_power_kw > 5 and soc < 80
rule_charging(reading) ==
    reading.battery_power_kw > Kw(5) /\ reading.battery_soc_pct < Pct(80)

\* soc < 20 and grid_import > 5
rule_critical_import(reading) ==
    reading.battery_soc_pct < Pct(20) /\ reading.grid_import_kw > Kw(5)

\* forecast_surplus_kwh > 10 and soc < 60
rule_precharge(reading, forecast_surplus_kwh) ==
    forecast_surplus_kwh > 10 /\ reading.battery_soc_pct < Pct(60)

\* gen > load * 1.3 and soc > 85
rule_curtail(reading) ==
    /\ 10 * reading.total_generation_kw > 13 * reading.load_kw
    /\ reading.battery_soc_pct > Pct(85)

\* hour_local = (utc hour + 5.5) % 24; 14 <= hour_local <= 17 and load > 50
\* and gen < 20; hour_local in halves of an hour
rule_shift_load(reading, hour_utc) ==
    LET hour_local == (2 * hour_utc + 11) % 48
    IN  /\ 28 <= hour_local /\ hour_local <= 34
        /\ reading.load_kw > Kw(50)
        /\ reading.total_generation_kw < Kw(20)

\* recs.append({...}) when the rule holds: action and priority of the entry
AppendIf(recs, cond, action, priority) ==
    IF cond THEN Append(recs, [action |-> action, priority |-> priority])
    ELSE recs

\* generate_recommendations as an if / elif chain: the first rule that holds
\* is the only one that speaks
generate_recommendations_first_match(reading, forecast_surplus_kwh, hour_utc) ==
    IF rule_charging(reading) THEN <<[action |-> "CHARGE", priority |-> "LOW"]>>
    ELSE IF rule_critical_import(reading)
    THEN <<[action |-> "IMPORT", priority |-> "HIGH"]>>
    ELSE IF rule_precharge(reading, forecast_surplus_kwh)
    THEN <<[action |-> "CHARGE", priority |-> "MEDIUM"]>>
    ELSE IF rule_curtail(reading)
    THEN <<[action |-> "CURTAIL", priority |-> "LOW"]>>
    ELSE IF rule_shift_load(reading, hour_utc)
    THEN <<[action |-> "SHIFT_LOAD", priority |-> "MEDIUM"]>>
    ELSE <<[action |-> "OPTIMAL", priority |-> "LOW"]>>

generate_recommendations(reading, forecast_surplus_kwh, hour_utc) ==
    LET r1 == AppendIf(<<>>, rule_charging(reading), "CHARGE", "LOW")
        r2 == AppendIf(r1, rule_critical_import(reading), "IMPORT", "HIGH")
        r3 == AppendIf(r2, rule_precharge(reading, forecast_surplus_kwh),
                       "CHARGE", "MEDIUM")
        r4 == AppendIf(r3, rule_curtail(reading), "CURTAIL", "LOW")
        r5 == AppendIf(r4, rule_shift_load(reading, hour_utc),
                       "SHIFT_LOAD", "MEDIUM")
    IN  IF r5 = <<>> THEN <<[action |-> "OPTIMAL", priority |-> "LOW"]>>
        ELSE r5

\* generate_recommendations under test: readings on both sides of every
\* threshold (gen = 1.3 * load included), forecasts 10 and 11 kWh, and UTC
\* hours 8, 9, 11 and 12 (13:30, 14:30, 16:30 and 17:30 local).  args is the
\* input, calls the list returned.
RecReadings ==
    [battery_power_kw    : {0, Kw(5), Kw(6)},
     battery_soc_pct     : {Pct(15), Pct(20), Pct(60), Pct(80), Pct(85),
                            Pct(90)},
     total_generation_kw : {Kw(10), Kw(13), Kw(20), Kw(100)},
     load_kw             : {Kw(10), Kw(50), Kw(60)},
     grid_import_kw      : {Kw(5), Kw(6)}]

RecArgs ==
    [reading : RecReadings, forecast_surplus_kwh : {10, 11},
     hour_utc : {8, 9, 11, 12}]

RecInit ==
    /\ args \in RecArgs
    /\ now = Times[1]
    /\ calls = <<>>
    /\ GridStart
    /\ PipeStart(0)

\* one call of generate_recommendations with the input args
Recommend ==
    /\ calls = <<>>
    /\ calls' = <<[recs |-> generate_recommendations(
                                args.reading, args.forecast_surplus_kwh,
                                args.hour_utc)]>>
    /\ UNCHANGED <<args, now, gridVars, pipeVars>>

RecNext == Recommend

SpecRecs == RecInit /\ [][RecNext]_vars

---------------------------------------------------------------------------

\* backend/simulator.py generate_reading and backend/main.py tick, ingest_data

\* SOC units of 0.01 % and of 0.1 %
SocCenti == SocScale \div 100

SocDeci == SocScale \div 10

\* SOC units that 0.01 kW moves in one tick: 0.01 * (5 / 3600)
\* / BATTERY_CAP_KWH * 100 percent
SocPerTick == SocScale \div (TicksPerHour * BATTERY_CAP_KWH)

\* the strategy label of a dispatch result, as active_strategy carries it
Label(opt) == <<opt.strategy, opt.curtailed_kw>>

\* tick_soc without the clamp to [5, 95]
tick_soc_unclamped(soc, bp) ==
    LET num == soc * 100 + bp * 95 * SocPerTick
    IN  RoundHalfEven(num, 100 * SocCenti) * SocCenti

\* generate_reading, the SOC write: soc_delta = bp * delta_t_h * efficiency
\* / BATTERY_CAP_KWH * 100 with efficiency 0.95, then
\* round(max(5.0, min(95.0, soc + soc_delta)), 2); bp in centi-kW
tick_soc(soc, bp) ==
    LET num == soc * 100 + bp * 95 * SocPerTick
        clamped == Max(Pct(5) * 100, Min(Pct(95) * 100, num))
    IN  RoundHalfEven(clamped, 100 * SocCenti) * SocCenti

\* ingest_data, the SOC write: kwh_change = bp * (5 / 3600);
\* soc += kwh_change / BATTERY_CAP_KWH * 100; soc = max(0.0, min(100.0, soc))
ingest_soc(soc, bp) ==
    LET delta == bp * SocPerTick
    IN  Max(0, Min(Pct(100), soc + delta))

\* the battery_soc_pct argument of the optimizer call in generate_reading
tick_decision_soc == sensor_state

\* the battery_soc_pct argument of the optimizer call in ingest_data
ingest_decision_soc(reading) == sensor_state

\* round(min(100.0, total_gen / load_kw * 100) if load_kw > 0 else 0.0, 1)
tick_self_consumption(total_gen, load_kw) ==
    IF load_kw > 0
    THEN RoundHalfEven(Min(1000 * load_kw, total_gen * 1000), load_kw)
    ELSE 0

\* round(min(100.0, total_gen / max(1, load_kw) * 100), 1); fine units
ingest_self_consumption(total_gen, load_kw) ==
    LET den == Max(Kw(1), load_kw)
    IN  RoundHalfEven(Min(1000 * den, total_gen * 1000), den)

\* the dict generate_reading returns (timestamp left out); solar_kw, wind_kw
\* and load_kw are already rounded to 0.01 kW, here in centi-kW
tick_reading(solar_kw, wind_kw, load_kw, opt, soc) ==
    LET total_gen == solar_kw + wind_kw
    IN  [solar_kw             |-> solar_kw * PwScale,
         wind_kw              |-> wind_kw * PwScale,
         total_generation_kw  |-> total_gen * PwScale,
         load_kw              |-> load_kw * PwScale,
         battery_soc_pct      |-> soc,
         battery_power_kw     |-> opt.battery_power_kw * PwScale,
         grid_import_kw       |-> opt.grid_import_kw * PwScale,
         grid_export_kw       |-> opt.grid_export_kw * PwScale,
         self_consumption_pct |-> tick_self_consumption(total_gen, load_kw),
         co2_saved_kg         |-> RoundHalfEven(total_gen * 5 * 71, 3600),
         cost_saved_inr       |-> RoundHalfEven(total_gen * 5 * 750, 3600),
         active_strategy      |-> Label(opt)]

\* ingest_reading without the write of total_generation_kw: the field keeps
\* what process_sensor_payload made of the payload
ingest_reading_total_from_payload(reading, opt, soc) ==
    [reading EXCEPT
        !.battery_power_kw     = opt.battery_power_kw * PwScale,
        !.grid_import_kw       = opt.grid_import_kw * PwScale,
        !.grid_export_kw       = opt.grid_export_kw * PwScale,
        !.battery_soc_pct      = RoundHalfEven(soc, SocDeci) * SocDeci,
        !.self_consumption_pct =
            ingest_self_consumption(reading.solar_kw + reading.wind_kw,
                                    reading.load_kw)]
    @@ [active_strategy |-> Label(opt)]

\* the reading ingest_data builds: the processed payload with the dispatch
\* result, the tracked SOC rounded to 0.1 % and the derived metrics written in
ingest_reading(reading, opt, soc) ==
    LET total_gen == reading.solar_kw + reading.wind_kw
    IN  [reading EXCEPT
            !.battery_power_kw     = opt.battery_power_kw * PwScale,
            !.grid_import_kw       = opt.grid_import_kw * PwScale,
            !.grid_export_kw       = opt.grid_export_kw * PwScale,
            !.battery_soc_pct      = RoundHalfEven(soc, SocDeci) * SocDeci,
            !.total_generation_kw  = total_gen,
            !.self_consumption_pct =
                ingest_self_consumption(total_gen, reading.load_kw)]
        @@ [active_strategy |-> Label(opt)]

\* The coroutines tick() and ingest_data() run on one asyncio event loop (the
\* AsyncIOScheduler job and the FastAPI handler): control passes from one to
\* the other only where the running one awaits.  A coroutine is suspended
\* when it has not started, awaits get_current_cloudcover(), or awaits the
\* database and the broadcast; it is not between its optimizer call and its
\* write of the SOC, where the code has no await.
\* Suspended as it would be with an await (or a second thread) between the
\* optimizer call and the write of the SOC
SuspendedAnywhere(pc) == pc \in {"idle", "await_cloud", "decided", "await_db"}

Suspended(pc) == pc \in {"idle", "await_cloud", "await_db"}

\* number of SOC writes in one run
MaxUpdates == 2

\* what fetch_solar_wind_forecast(hours_ahead=3) can come to when awaited: an
\* exception (network error, timeout after 10 s, HTTP error status, malformed
\* body), or a forecast whose cloudcover list is empty or starts with a value
CloudFetches ==
    {[raised |-> TRUE,  cloudcover |-> <<>>],
     [raised |-> FALSE, cloudcover |-> <<>>],
     [raised |-> FALSE, cloudcover |-> <<0>>],
     [raised |-> FALSE, cloudcover |-> <<100>>]}

\* get_current_cloudcover taking a failed fetch for a fully overcast sky
get_current_cloudcover_overcast_on_failure(forecast) ==
    IF forecast.raised THEN 100
    ELSE IF forecast.cloudcover # <<>> THEN forecast.cloudcover[1] ELSE 0

\* get_current_cloudcover: the first cloudcover value of the forecast, 0.0
\* when the fetch raised or the list is empty.  It never raises, so the
\* except branch of tick(), which sets 0.0 as well, is not taken.
get_current_cloudcover(forecast) ==
    IF forecast.raised THEN 0
    ELSE IF forecast.cloudcover # <<>> THEN forecast.cloudcover[1] ELSE 0

\* round(SOLAR_CAP_KW * solar_factor, 2) where the factor is the clear-sky
\* one (noise included) times cloud_factor = 1 - cloud_cover_pct / 100 * 0.85;
\* centi-kW
tick_solar_kw(clear_sky_kw, cloud_cover_pct) ==
    RoundHalfEven(clear_sky_kw * (10000 - 85 * cloud_cover_pct), 10000)

\* what one simulated tick measures (solar_kw under a clear sky, wind_kw,
\* load_kw, centi-kW: surplus +50 kW, -56 kW, 0 with cloud cover 0) and the
\* 3 h surplus it computes (kWh)
TickSamples ==
    {[solar_kw |-> 5000, wind_kw |-> 1500, load_kw |-> 1500],
     [solar_kw |-> 0,    wind_kw |-> 100,  load_kw |-> 5700],
     [solar_kw |-> 1000, wind_kw |-> 500,  load_kw |-> 1500]}

TickForecast == {-30, 30}

\* IngestPayload bodies posted to /api/v1/ingest (fine units, SOC units)
IngestPayloads ==
    {[solar_kw |-> Kw(100), wind_kw |-> 0, load_kw |-> 0,
      battery_soc_pct |-> Pct(50)],
     [solar_kw |-> -Kw(5), wind_kw |-> 50, load_kw |-> Kw(30) + 30,
      battery_soc_pct |-> Pct(20)],
     [solar_kw |-> Kw(10), wind_kw |-> 50, load_kw |-> Kw(10),
      battery_soc_pct |-> Pct(120)]}

\* OptimizationConfig bodies posted to /api/v1/optimization/config
Configs == [mode : Modes, manual_override_kw : {0, Kw(5)}]

\* SOC values the battery can have reached when the run starts
GridSoc == {Pct(5), Pct(50), Pct(95), Pct(100) - 500}

GridInit ==
    /\ sensor_state \in GridSoc
    /\ current_opt_config = [mode |-> "AUTO", manual_override_kw |-> 0]
    /\ latest_reading = <<>>
    /\ tickPc = "idle"
    /\ tickLocal = <<>>
    /\ ingestPc = "idle"
    /\ ingestLocal = <<>>
    /\ lastUpdate = [path |-> "none"]
    /\ nUpdates = 0
    /\ args = <<>>
    /\ now = Times[1]
    /\ calls = <<>>
    /\ PipeStart(0)

\* decisions taken or about to be taken whose SOC write is still to come
Pending ==
    (IF tickPc \in {"await_cloud", "decided"} THEN 1 ELSE 0)
    + (IF ingestPc = "decided" THEN 1 ELSE 0)

\* the wall clock moves on to the next sampled time
ClockAdvance ==
    /\ \E i \in DOMAIN Times :
          /\ i > 1
          /\ Times[i - 1] = now
          /\ now' = Times[i]
    /\ UNCHANGED <<args, calls, gridVars, pipeVars>>

\* the scheduler starts tick(), which awaits get_current_cloudcover()
TickStart ==
    /\ tickPc = "idle"
    /\ Suspended(ingestPc)
    /\ nUpdates + Pending < MaxUpdates
    /\ tickPc' = "await_cloud"
    /\ UNCHANGED <<sensor_state, current_opt_config, latest_reading, tickLocal,
                   ingestPc, ingestLocal, lastUpdate, nUpdates, optVars,
                   pipeVars>>

\* tick() resumes with the outcome of the fetch and generate_reading runs up
\* to the optimizer call; the random noise is in the sampled clear-sky solar,
\* wind and load
TickDecide ==
    /\ tickPc = "await_cloud"
    /\ Suspended(ingestPc)
    /\ \E m \in TickSamples, surplus_3h \in TickForecast,
          forecast \in CloudFetches :
          LET cloud_cover == get_current_cloudcover(forecast)
              solar_kw    == tick_solar_kw(m.solar_kw, cloud_cover)
          IN  tickLocal' =
                  [fetch_failed |-> forecast.raised,
                   cloud_cover |-> cloud_cover,
                   solar_kw |-> solar_kw, wind_kw |-> m.wind_kw,
                   load_kw |-> m.load_kw, read |-> tick_decision_soc,
                   opt |-> optimize_power_flow(
                               solar_kw * PwScale, m.wind_kw * PwScale,
                               m.load_kw * PwScale, tick_decision_soc,
                               BATTERY_CAP_KWH, Kw(BATTERY_MAX_KW), surplus_3h,
                               current_opt_config.mode,
                               current_opt_config.manual_override_kw, now)]
    /\ tickPc' = "decided"
    /\ UNCHANGED <<sensor_state, current_opt_config, latest_reading, ingestPc,
                   ingestLocal, lastUpdate, nUpdates, optVars, pipeVars>>

\* TickApply advancing the SOC twice for one decision
TickApplyTwice ==
    /\ tickPc = "decided"
    /\ Suspended(ingestPc)
    /\ LET bp  == tickLocal.opt.battery_power_kw
           new == tick_soc(tick_soc(sensor_state, bp), bp)
       IN  /\ sensor_state' = new
           /\ lastUpdate' = [path |-> "tick", read |-> tickLocal.read,
                             base |-> sensor_state, bp |-> bp, new |-> new,
                             fetch_failed |-> tickLocal.fetch_failed]
           /\ latest_reading' =
                 process_sensor_payload(
                     tick_reading(tickLocal.solar_kw, tickLocal.wind_kw,
                                  tickLocal.load_kw, tickLocal.opt, new))
    /\ nUpdates' = nUpdates + 1
    /\ tickPc' = "await_db"
    /\ tickLocal' = <<>>
    /\ UNCHANGED <<current_opt_config, ingestPc, ingestLocal, optVars,
                   pipeVars>>

\* generate_reading writes the SOC and returns; tick() normalises the reading,
\* publishes it as latest_reading and awaits the database
TickApply ==
    /\ tickPc = "decided"
    /\ Suspended(ingestPc)
    /\ LET new == tick_soc(sensor_state, tickLocal.opt.battery_power_kw)
       IN  /\ sensor_state' = new
           /\ lastUpdate' = [path |-> "tick", read |-> tickLocal.read,
                             base |-> sensor_state,
                             bp |-> tickLocal.opt.battery_power_kw,
                             new |-> new,
                             fetch_failed |-> tickLocal.fetch_failed]
           /\ latest_reading' =
                 process_sensor_payload(
                     tick_reading(tickLocal.solar_kw, tickLocal.wind_kw,
                                  tickLocal.load_kw, tickLocal.opt, new))
    /\ nUpdates' = nUpdates + 1
    /\ tickPc' = "await_db"
    /\ tickLocal' = <<>>
    /\ UNCHANGED <<current_opt_config, ingestPc, ingestLocal, optVars,
                   pipeVars>>

\* the commit and the broadcast of tick() complete
TickFinish ==
    /\ tickPc = "await_db"
    /\ Suspended(ingestPc)
    /\ tickPc' = "idle"
    /\ UNCHANGED <<sensor_state, current_opt_config, latest_reading, tickLocal,
                   ingestPc, ingestLocal, lastUpdate, nUpdates, optVars,
                   pipeVars>>

\* ingest_data starts: it normalises the payload and calls the optimizer with
\* the tracked SOC and forecast 0
IngestDecide ==
    /\ ingestPc = "idle"
    /\ Suspended(tickPc)
    /\ nUpdates + Pending < MaxUpdates
    /\ \E payload \in IngestPayloads :
          LET reading == process_sensor_payload(payload)
              soc     == ingest_decision_soc(reading)
          IN  ingestLocal' =
                  [reading |-> reading, read |-> soc,
                   opt |-> optimize_power_flow(
                               reading.solar_kw, reading.wind_kw,
                               reading.load_kw, soc, BATTERY_CAP_KWH,
                               Kw(BATTERY_MAX_KW), 0,
                               current_opt_config.mode,
                               current_opt_config.manual_override_kw, now)]
    /\ ingestPc' = "decided"
    /\ UNCHANGED <<sensor_state, current_opt_config, latest_reading, tickPc,
                   tickLocal, lastUpdate, nUpdates, optVars, pipeVars>>

\* ingest_data writes the SOC, completes the reading, publishes it as
\* latest_reading and awaits the database
IngestApply ==
    /\ ingestPc = "decided"
    /\ Suspended(tickPc)
    /\ LET new == ingest_soc(sensor_state, ingestLocal.opt.battery_power_kw)
       IN  /\ sensor_state' = new
           /\ lastUpdate' = [path |-> "ingest", read |-> ingestLocal.read,
                             base |-> sensor_state,
                             bp |-> ingestLocal.opt.battery_power_kw,
                             new |-> new]
           /\ latest_reading' =
                 ingest_reading(ingestLocal.reading, ingestLocal.opt, new)
    /\ nUpdates' = nUpdates + 1
    /\ ingestPc' = "await_db"
    /\ ingestLocal' = <<>>
    /\ UNCHANGED <<current_opt_config, tickPc, tickLocal, optVars, pipeVars>>

\* the commit and the broadcast of ingest_data complete
IngestFinish ==
    /\ ingestPc = "await_db"
    /\ Suspended(tickPc)
    /\ ingestPc' = "idle"
    /\ UNCHANGED <<sensor_state, current_opt_config, latest_reading, tickPc,
                   tickLocal, ingestLocal, lastUpdate, nUpdates, optVars,
                   pipeVars>>

\* configure_optimization replaces the process-wide configuration
ConfigureOptimization ==
    /\ Suspended(tickPc)
    /\ Suspended(ingestPc)
    /\ \E config \in Configs :
          /\ config # current_opt_config
          /\ current_opt_config' = config
    /\ UNCHANGED <<sensor_state, latest_reading, tickPc, tickLocal, ingestPc,
                   ingestLocal, lastUpdate, nUpdates, optVars, pipeVars>>

GridNext ==
    \/ ClockAdvance
    \/ TickStart
    \/ TickDecide
    \/ TickApply
    \/ TickFinish
    \/ IngestDecide
    \/ IngestApply
    \/ IngestFinish
    \/ ConfigureOptimization

SpecGrid == GridInit /\ [][GridNext]_vars

\* The simulated ticks alone.  The event loop resumes tick() when the awaited
\* fetch has resolved, which it does within the 10 s timeout of the HTTP
\* client, and generate_reading then runs to its return without awaiting:
\* a tick that can take its next step does take it.
TickNext ==
    \/ TickStart
    \/ TickDecide
    \/ TickApply
    \/ TickFinish

SpecTick ==
    /\ GridInit
    /\ [][TickNext]_vars
    /\ WF_vars(TickDecide)
    /\ WF_vars(TickApply)

---------------------------------------------------------------------------
\* backend/engine/ingestion.py
\*
\* A reading is a dict: a function from field names to values.  Values are in
\* units of 0.1 (of a kW, a percent, ...); a mean is in units of 0.001, which
\* is where round(mean, 3) rounds it; times are in minutes.

WINDOW_SIZE == 720

ANOMALY_SIGMA == 3

AGGREGATE_MINUTES == 5

\* maxlen of self._aggs
AGGS_MAXLEN == 288

NUMERIC_FIELDS ==
    <<"solar_kw", "wind_kw", "total_generation_kw", "load_kw",
      "battery_soc_pct", "battery_power_kw", "grid_import_kw",
      "grid_export_kw", "self_consumption_pct", "co2_saved_kg",
      "cost_saved_inr">>

\* the fields _detect_anomalies looks at, in its order
MONITORED_FIELDS == <<"solar_kw", "wind_kw", "load_kw", "grid_import_kw">>

RECURSIVE SumSeq(_)
SumSeq(q) == IF q = <<>> THEN 0 ELSE q[1] + SumSeq(Tail(q))

SumSqSeq(q) == SumSeq([i \in DOMAIN q |-> q[i] * q[i]])

\* [r[field] for r in readings if field in r]
FieldValues(readings, field) ==
    LET having == SelectSeq(readings, LAMBDA r : field \in DOMAIN r)
    IN  [i \in DOMAIN having |-> having[i][field]]

\* a deque that drops its newest element when full
DequeAppendEvictNewest(q, x, n) ==
    IF n = 0 THEN <<>>
    ELSE IF Len(q) >= n THEN Append(SubSeq(q, 1, Len(q) - 1), x)
    ELSE Append(q, x)

\* deque.append on a deque(maxlen = n)
DequeAppend(q, x, n) ==
    IF n = 0 THEN <<>>
    ELSE IF Len(q) >= n THEN Append(Tail(q), x)
    ELSE Append(q, x)

\* round(statistics.mean(values), 3) if values else 0.0; a mean that is an
\* exact decimal tie (which takes at least 8 values) falls as its float does
MeanRound3(values) ==
    IF values = <<>> THEN 0
    ELSE RoundHalfEven(SumSeq(values) * 100, Len(values))

\* the dict _flush_aggregate appends to self._aggs
AggregateBin(buf, bin_ts) ==
    [f \in {"timestamp"} \cup {NUMERIC_FIELDS[i] : i \in DOMAIN NUMERIC_FIELDS} |->
        IF f = "timestamp" THEN bin_ts
        ELSE MeanRound3(FieldValues(buf, f))]

\* self._aggs after _flush_aggregate(bin_ts) on the buffer buf
_flush_aggregate(bins, buf, bin_ts) ==
    IF buf = <<>> THEN bins
    ELSE DequeAppend(bins, AggregateBin(buf, bin_ts), AGGS_MAXLEN)

\* n * (n - 1) times the sample variance of values: n * sum(x^2) - sum(x)^2
ScaledVariance(values) ==
    Len(values) * SumSqSeq(values) - SumSeq(values) * SumSeq(values)

\* sigma < 0.1 for sigma = statistics.stdev(values), in units of 0.1
FlatSignal(values) ==
    ScaledVariance(values) < Len(values) * (Len(values) - 1)

\* abs(val - mu) > k * sigma for mu = statistics.mean(values) and
\* sigma = statistics.stdev(values), both sides squared
DeviatesBy(val, values, k) ==
    LET n == Len(values)
        d == n * val - SumSeq(values)
    IN  d * d * (n - 1) > k * k * n * ScaledVariance(values)

\* a flag whose severity is decided at the trigger threshold
AnomalyFlagSeverityAtTrigger(field, value, values) ==
    [field |-> field, value |-> value, n |-> Len(values),
     sum |-> SumSeq(values),
     severity |-> IF DeviatesBy(value, values, ANOMALY_SIGMA)
                  THEN "HIGH" ELSE "MEDIUM"]

\* AnomalyFlag.__init__: the mean is sum / n, sigma is the sample standard
\* deviation of the n values
AnomalyFlag(field, value, values) ==
    [field |-> field, value |-> value, n |-> Len(values),
     sum |-> SumSeq(values),
     severity |-> IF DeviatesBy(value, values, ANOMALY_SIGMA * 2)
                  THEN "HIGH" ELSE "MEDIUM"]

\* detection without the guards on the number of values and on flatness
FlaggedUnguarded(win, reading, field) ==
    LET values == FieldValues(win, field)
        val    == IF field \in DOMAIN reading THEN reading[field] ELSE 0
    IN  DeviatesBy(val, values, ANOMALY_SIGMA)

\* whether _detect_anomalies flags the field of the new reading
Flagged(win, reading, field) ==
    LET values == FieldValues(win, field)
        val    == IF field \in DOMAIN reading THEN reading[field] ELSE 0
    IN  /\ Len(values) >= 10
        /\ ~FlatSignal(values)
        /\ DeviatesBy(val, values, ANOMALY_SIGMA)

_detect_anomalies(win, reading) ==
    IF Len(win) < 30 THEN <<>>
    ELSE LET hit == SelectSeq(MONITORED_FIELDS,
                              LAMBDA f : Flagged(win, reading, f))
         IN  [i \in DOMAIN hit |->
                 AnomalyFlag(hit[i],
                             IF hit[i] \in DOMAIN reading
                             THEN reading[hit[i]] ELSE 0,
                             FieldValues(win, hit[i]))]

\* ingest with bins on a fixed grid: a flush moves the cutoff on by
\* AGGREGATE_MINUTES from the old cutoff, not from the time of the ingest
ingest_cutoff_on_grid(reading, ts) ==
    LET buf    == Append(agg_buf, reading)
        ids    == Append(agg_buf_ids, Len(hist) + 1)
        cutoff == IF agg_cutoff = None THEN ts + AGGREGATE_MINUTES
                  ELSE agg_cutoff
        win    == DequeAppend(window, reading, maxlen)
    IN  /\ clock' = ts
        /\ window' = win
        /\ IF ts >= cutoff
           THEN /\ aggs' = _flush_aggregate(aggs, buf, cutoff)
                /\ agg_members' = DequeAppend(agg_members, ids, AGGS_MAXLEN)
                /\ agg_buf' = <<>>
                /\ agg_buf_ids' = <<>>
                /\ agg_cutoff' = cutoff + AGGREGATE_MINUTES
           ELSE /\ aggs' = aggs
                /\ agg_members' = agg_members
                /\ agg_buf' = buf
                /\ agg_buf_ids' = ids
                /\ agg_cutoff' = cutoff
        /\ flags' = _detect_anomalies(win, reading)
        /\ hist' = Append(hist, [reading |-> reading, ts |-> ts])
        /\ UNCHANGED <<maxlen, lock, thr, optVars, gridVars>>

\* ingest with the flush ahead of the buffer append: the bin is made of the
\* readings buffered before the call and the buffer reset drops the reading
\* of the call itself
ingest_flush_before_append(reading, ts) ==
    LET cutoff == IF agg_cutoff = None THEN ts + AGGREGATE_MINUTES
                  ELSE agg_cutoff
        win    == DequeAppend(window, reading, maxlen)
    IN  /\ clock' = ts
        /\ window' = win
        /\ IF ts >= cutoff
           THEN /\ aggs' = _flush_aggregate(aggs, agg_buf, cutoff)
                /\ agg_members' =
                      IF agg_buf = <<>> THEN agg_members
                      ELSE DequeAppend(agg_members, agg_buf_ids, AGGS_MAXLEN)
                /\ agg_buf' = <<>>
                /\ agg_buf_ids' = <<>>
                /\ agg_cutoff' = ts + AGGREGATE_MINUTES
           ELSE /\ aggs' = aggs
                /\ agg_members' = agg_members
                /\ agg_buf' = Append(agg_buf, reading)
                /\ agg_buf_ids' = Append(agg_buf_ids, Len(hist) + 1)
                /\ agg_cutoff' = cutoff
        /\ flags' = _detect_anomalies(win, reading)
        /\ hist' = Append(hist, [reading |-> reading, ts |-> ts])
        /\ UNCHANGED <<maxlen, lock, thr, optVars, gridVars>>

\* IngestionPipeline.ingest(reading), called by the only caller when the
\* clock shows ts: the lock is free and the call runs to its return
ingest(reading, ts) ==
    LET buf    == Append(agg_buf, reading)
        ids    == Append(agg_buf_ids, Len(hist) + 1)
        cutoff == IF agg_cutoff = None THEN ts + AGGREGATE_MINUTES
                  ELSE agg_cutoff
        win    == DequeAppend(window, reading, maxlen)
    IN  /\ clock' = ts
        /\ window' = win
        /\ IF ts >= cutoff
           THEN /\ aggs' = _flush_aggregate(aggs, buf, cutoff)
                /\ agg_members' = DequeAppend(agg_members, ids, AGGS_MAXLEN)
                /\ agg_buf' = <<>>
                /\ agg_buf_ids' = <<>>
                /\ agg_cutoff' = ts + AGGREGATE_MINUTES
           ELSE /\ aggs' = aggs
                /\ agg_members' = agg_members
                /\ agg_buf' = buf
                /\ agg_buf_ids' = ids
                /\ agg_cutoff' = cutoff
        /\ flags' = _detect_anomalies(win, reading)
        /\ hist' = Append(hist, [reading |-> reading, ts |-> ts])
        /\ UNCHANGED <<maxlen, lock, thr, optVars, gridVars>>

---------------------------------------------------------------------------
\* The pipeline with a small window: a pipeline of every capacity up to
\* MaxWindow takes up to MaxIngests readings, each arriving some minutes
\* after the one before.

MaxWindow == 3

MaxIngests == 4

\* a reading at night, one at noon, and one whose solar sensor is missing
PipeReadings ==
    { [solar_kw |-> 0, load_kw |-> 20],
      [solar_kw |-> 100, load_kw |-> 20],
      [load_kw |-> 35] }

PipeDelays == {0, 2, AGGREGATE_MINUTES}

PipeInit ==
    /\ OptStart
    /\ GridStart
    /\ \E n \in 0..MaxWindow : PipeStart(n)

PipeIngest ==
    /\ Len(hist) < MaxIngests
    /\ \E r \in PipeReadings, d \in PipeDelays : ingest(r, clock + d)

PipeNext == PipeIngest

SpecPipe == PipeInit /\ [][PipeNext]_vars

---------------------------------------------------------------------------
\* The pipeline under ingests that keep arriving while time keeps advancing.
\* The clock moves on by itself and an ingest reads it.  Up to MaxLive
\* readings arrive at any moment; after them ingests go on arriving, and the
\* model follows the run up to the first of them that finds the cutoff
\* reached, the clock moving on until then.

MaxLive == 3

\* minutes between two looks at the clock
LiveTicks == {3}

\* a reading at night and one whose solar sensor is missing
LiveReadings == {[solar_kw |-> 0, load_kw |-> 20], [load_kw |-> 35]}

LiveInit ==
    /\ OptStart
    /\ GridStart
    /\ \E n \in 1..2 : PipeStart(n)

\* datetime.now advances
LiveClock ==
    /\ \/ Len(hist) < MaxLive
       \/ agg_buf # <<>> /\ clock < agg_cutoff
    /\ clock < MaxLive * AGGREGATE_MINUTES \/ clock < agg_cutoff
    /\ \E d \in LiveTicks : clock' = clock + d
    /\ UNCHANGED <<maxlen, window, agg_buf, aggs, agg_cutoff, flags, hist,
                   agg_buf_ids, agg_members, lock, thr, optVars, gridVars>>

\* one call of ingest at the time the clock shows
LiveIngest ==
    /\ \/ Len(hist) < MaxLive
       \/ agg_buf # <<>> /\ clock >= agg_cutoff
    /\ \E r \in LiveReadings : ingest(r, clock)

LiveNext == LiveClock \/ LiveIngest

SpecLive ==
    LiveInit /\ [][LiveNext]_vars /\ WF_vars(LiveClock) /\ WF_vars(LiveIngest)

---------------------------------------------------------------------------
\* The pipeline around the thresholds of _detect_anomalies.  The pipeline
\* starts after a burst of readings ingested at time 0 (so that none of them
\* has flushed a bin): some of them lack one monitored field, the others carry
\* a signal in it, and the other monitored fields are quiet.  It then takes up
\* to AnomalyIngests further readings.

AnomalyIngests == 2

Quiet == [solar_kw |-> 0, wind_kw |-> 0, load_kw |-> 0, grid_import_kw |-> 0]

With(field, v) == [Quiet EXCEPT ![field] = v]

Without(field) == [f \in DOMAIN Quiet \ {field} |-> Quiet[f]]

\* the first and the last field _detect_anomalies looks at
SignalFields == {MONITORED_FIELDS[1], MONITORED_FIELDS[Len(MONITORED_FIELDS)]}

\* the i-th value of a signal: constant, constant after one small step, a
\* ripple just above the flatness floor around 2.1, and a wide swing
Signals == {"flat", "step", "ripple", "swing"}

SignalValue(signal, i) ==
    CASE signal = "flat"   -> 0
      [] signal = "step"   -> IF i = 1 THEN 1 ELSE 0
      [] signal = "ripple" -> IF i % 2 = 0 THEN 22 ELSE 20
      [] signal = "swing"  -> IF i % 2 = 0 THEN 20 ELSE 0

\* len readings, the first absent of them without the field
Burst(field, len, absent, signal) ==
    [i \in 1..len |->
        IF i <= absent THEN Without(field)
        ELSE With(field, SignalValue(signal, i - absent))]

\* capacity and burst length: below, at and above the cold-start threshold,
\* in a window that is about to fill up and in one of the default size
BurstShapes ==
    { <<30, 28>>, <<30, 29>>, <<WINDOW_SIZE, 29>>, <<WINDOW_SIZE, 40>> }

\* readings of the burst without the field: none, or all but 9, or all but 10
AbsentCounts(len) == {0, len - 9, len - 10}

AnomalyReadings ==
    {Quiet} \cup
    UNION { {Without(f), With(f, 1), With(f, 8), With(f, 50)} :
            f \in SignalFields }

\* minutes between two readings: the second one after the burst flushes a bin
AnomalyDelays == {3}

\* the readings ingested after the burst
AfterBurst == SelectSeq(hist, LAMBDA h : h.ts > 0)

AnomalyInit ==
    /\ OptStart
    /\ GridStart
    /\ \E shape \in BurstShapes, f \in SignalFields, signal \in Signals :
         \E absent \in AbsentCounts(shape[2]) :
            LET burst == Burst(f, shape[2], absent, signal)
            IN  /\ maxlen = shape[1]
                /\ window = burst
                /\ agg_buf = burst
                /\ aggs = <<>>
                /\ agg_cutoff = 0 + AGGREGATE_MINUTES
                /\ clock = 0
                /\ flags = _detect_anomalies(burst, burst[Len(burst)])
                /\ hist = [i \in DOMAIN burst |->
                              [reading |-> burst[i], ts |-> 0]]
                /\ agg_buf_ids = [i \in DOMAIN burst |-> i]
                /\ agg_members = <<>>
                /\ lock = Free
                /\ thr = <<>>

AnomalyIngest ==
    /\ Len(AfterBurst) < AnomalyIngests
    /\ \E r \in AnomalyReadings, d \in AnomalyDelays : ingest(r, clock + d)

AnomalyNext == AnomalyIngest

SpecAnomaly == AnomalyInit /\ [][AnomalyNext]_vars

---------------------------------------------------------------------------
\* The pipeline called from several threads: ingest step by step inside its
\* "with self._lock:" block, and the queries recent, aggregates and
\* rolling_stats, which copy under the lock and work on the copy outside it.

\* a lock that every thread can take at any time
acquire_unguarded(holder) == TRUE

\* the lock can be taken: threading.Lock.acquire returns only when no thread
\* holds the lock
acquire(holder) == holder = Free

\* the deque itself handed out in place of a copy of it
list_alias(name, q) == [ref |-> name, items |-> q]

\* list(self._window) and list(self._aggs): a new list with the elements the
\* deque has now.  A list value is kept with the name of the object it is
\* ("copy" for a list of its own), so that a later read of it goes through
\* Contents.
list(name, q) == [ref |-> "copy", items |-> q]

\* what a list value holds when it is read
Contents(l) ==
    IF l.ref = "_window" THEN window
    ELSE IF l.ref = "_aggs" THEN aggs
    ELSE l.items

\* items[-n:] for n >= 0: the last n elements, all of them when n is 0
\* (-0 is 0, and items[0:] is the whole list) or n >= len(items)
slice_last(items, n) ==
    IF n = 0 \/ n >= Len(items) THEN items
    ELSE [i \in 1..n |-> items[Len(items) - n + i]]

\* min(values) and max(values) of a non-empty sequence
MinSeq(values) ==
    CHOOSE v \in {values[i] : i \in DOMAIN values} :
        \A i \in DOMAIN values : v <= values[i]

MaxSeq(values) ==
    CHOOSE v \in {values[i] : i \in DOMAIN values} :
        \A i \in DOMAIN values : v >= values[i]

\* round(statistics.stdev(values), 3) for two values or more, in 0.001 for
\* values in 0.1: the k nearest to 100 * sqrt(ScaledVariance / (n * (n - 1)))
StdevRound3(values) ==
    LET n  == Len(values)
        sv == 40000 * ScaledVariance(values)
    IN  CHOOSE k \in 0..(100 * (MaxSeq(values) - MinSeq(values))) :
            /\ k = 0 \/ (2 * k - 1) * (2 * k - 1) * n * (n - 1) <= sv
            /\ sv < (2 * k + 1) * (2 * k + 1) * n * (n - 1)

\* a field's entry with n counting every reading of the snapshot
FieldStatsCountingReadings(values, snap) ==
    IF values = <<>> THEN [k \in {} |-> 0]
    ELSE [mean    |-> MeanRound3(values),
          std     |-> IF Len(values) > 1 THEN StdevRound3(values) ELSE 0,
          min     |-> MinSeq(values) * 100,
          max     |-> MaxSeq(values) * 100,
          current |-> values[Len(values)] * 100,
          n       |-> Len(snap)]

\* the entry rolling_stats makes for a field with the values it found, in
\* 0.001 (n is a count); an empty dict when it found none
FieldStats(values, snap) ==
    IF values = <<>> THEN [k \in {} |-> 0]
    ELSE [mean    |-> MeanRound3(values),
          std     |-> IF Len(values) > 1 THEN StdevRound3(values) ELSE 0,
          min     |-> MinSeq(values) * 100,
          max     |-> MaxSeq(values) * 100,
          current |-> values[Len(values)] * 100,
          n       |-> Len(values)]

\* the dict rolling_stats returns for the snapshot snap
rolling_stats(snap) ==
    [f \in {NUMERIC_FIELDS[i] : i \in DOMAIN NUMERIC_FIELDS} |->
        FieldStats(FieldValues(snap, f), snap)]

\* a thread that is not inside a call, and the number of calls made so far
Returned(t) == thr[t].pc \in {"idle", "done"}

CallsMade == SumSeq([t \in DOMAIN thr |-> thr[t].made])

\* the positions of ingest between taking the lock and releasing it
Critical == {"append", "buffer", "check", "flush", "reset", "detect"}

MaxThreadCalls == 3

\* the readings the threads ingest, the second without a solar sensor, and
\* the n they query with
ThreadReadings ==
    { [solar_kw |-> 0, load_kw |-> 20],
      [load_kw |-> 35] }

QueryN == {0, 1, 2}

\* the wall clock moves on by one bin length, up to two of them
ThreadClock ==
    /\ clock < 2 * AGGREGATE_MINUTES
    /\ clock' = clock + AGGREGATE_MINUTES
    /\ UNCHANGED <<maxlen, window, agg_buf, aggs, agg_cutoff, flags, hist,
                   agg_buf_ids, agg_members, lock, thr, optVars, gridVars>>

\* ingest(reading) is called: ts = datetime.now(timezone.utc), read before
\* the lock is asked for
IngestCall(t) ==
    /\ Returned(t)
    /\ CallsMade < MaxThreadCalls
    /\ \E reading \in ThreadReadings :
          thr' = [thr EXCEPT ![t] =
                     [pc |-> "acquire", made |-> thr[t].made + 1,
                      op |-> "ingest", reading |-> reading, ts |-> clock]]
    /\ UNCHANGED <<maxlen, window, agg_buf, aggs, agg_cutoff, clock, flags,
                   hist, agg_buf_ids, agg_members, lock, optVars, gridVars>>

\* with self._lock: the thread enters when it can take the lock
IngestAcquire(t) ==
    /\ thr[t].pc = "acquire"
    /\ acquire(lock)
    /\ lock' = t
    /\ thr' = [thr EXCEPT ![t].pc = "append"]
    /\ UNCHANGED <<maxlen, window, agg_buf, aggs, agg_cutoff, clock, flags,
                   hist, agg_buf_ids, agg_members, optVars, gridVars>>

\* self._window.append(reading)
IngestAppend(t) ==
    /\ thr[t].pc = "append"
    /\ window' = DequeAppend(window, thr[t].reading, maxlen)
    /\ hist' = Append(hist, [reading |-> thr[t].reading, ts |-> thr[t].ts])
    /\ thr' = [thr EXCEPT ![t] =
                  [pc |-> "buffer", made |-> thr[t].made, op |-> "ingest",
                   reading |-> thr[t].reading, ts |-> thr[t].ts,
                   id |-> Len(hist) + 1]]
    /\ UNCHANGED <<maxlen, agg_buf, aggs, agg_cutoff, clock, flags,
                   agg_buf_ids, agg_members, lock, optVars, gridVars>>

\* self._agg_buf.append(reading)
IngestBuffer(t) ==
    /\ thr[t].pc = "buffer"
    /\ agg_buf' = Append(agg_buf, thr[t].reading)
    /\ agg_buf_ids' = Append(agg_buf_ids, thr[t].id)
    /\ thr' = [thr EXCEPT ![t].pc = "check"]
    /\ UNCHANGED <<maxlen, window, aggs, agg_cutoff, clock, flags, hist,
                   agg_members, lock, optVars, gridVars>>

\* the first cutoff is set if there is none, and ts >= self._agg_cutoff is
\* tested
IngestCheck(t) ==
    /\ thr[t].pc = "check"
    /\ LET cutoff == IF agg_cutoff = None
                     THEN thr[t].ts + AGGREGATE_MINUTES ELSE agg_cutoff
       IN  /\ agg_cutoff' = cutoff
           /\ thr' = [thr EXCEPT ![t].pc =
                         IF thr[t].ts >= cutoff THEN "flush" ELSE "detect"]
    /\ UNCHANGED <<maxlen, window, agg_buf, aggs, clock, flags, hist,
                   agg_buf_ids, agg_members, lock, optVars, gridVars>>

\* self._flush_aggregate(self._agg_cutoff)
IngestFlush(t) ==
    /\ thr[t].pc = "flush"
    /\ aggs' = _flush_aggregate(aggs, agg_buf, agg_cutoff)
    /\ agg_members' = IF agg_buf = <<>> THEN agg_members
                      ELSE DequeAppend(agg_members, agg_buf_ids, AGGS_MAXLEN)
    /\ thr' = [thr EXCEPT ![t].pc = "reset"]
    /\ UNCHANGED <<maxlen, window, agg_buf, agg_cutoff, clock, flags, hist,
                   agg_buf_ids, lock, optVars, gridVars>>

\* self._agg_buf = []; self._agg_cutoff = ts + timedelta(minutes=5)
IngestReset(t) ==
    /\ thr[t].pc = "reset"
    /\ agg_buf' = <<>>
    /\ agg_buf_ids' = <<>>
    /\ agg_cutoff' = thr[t].ts + AGGREGATE_MINUTES
    /\ thr' = [thr EXCEPT ![t].pc = "detect"]
    /\ UNCHANGED <<maxlen, window, aggs, clock, flags, hist, agg_members,
                   lock, optVars, gridVars>>

\* anomalies = self._detect_anomalies(reading); the lock is released and the
\* flags are returned
IngestDetect(t) ==
    /\ thr[t].pc = "detect"
    /\ flags' = _detect_anomalies(window, thr[t].reading)
    /\ lock' = Free
    /\ thr' = [thr EXCEPT ![t] = [pc |-> "idle", made |-> thr[t].made]]
    /\ UNCHANGED <<maxlen, window, agg_buf, aggs, agg_cutoff, clock, hist,
                   agg_buf_ids, agg_members, optVars, gridVars>>

\* recent(n), aggregates(n) or rolling_stats() is called
QueryCall(t) ==
    /\ Returned(t)
    /\ CallsMade < MaxThreadCalls
    /\ \E op \in {"recent", "aggregates", "rolling_stats"}, n \in QueryN :
          /\ op = "rolling_stats" => n = 0
          /\ thr' = [thr EXCEPT ![t] =
                        [pc |-> "copy", made |-> thr[t].made + 1,
                         op |-> op, n |-> n]]
    /\ UNCHANGED <<maxlen, window, agg_buf, aggs, agg_cutoff, clock, flags,
                   hist, agg_buf_ids, agg_members, lock, optVars, gridVars>>

\* with self._lock: items = list(self._window) (list(self._aggs) in
\* aggregates); the thread notes what it copied, after how many ingests, and
\* whether an ingest was between taking and releasing the lock
QueryCopy(t) ==
    /\ thr[t].pc = "copy"
    /\ acquire(lock)
    /\ LET name == IF thr[t].op = "aggregates" THEN "_aggs" ELSE "_window"
           q    == IF thr[t].op = "aggregates" THEN aggs ELSE window
       IN  thr' = [thr EXCEPT ![t] =
                      [pc |-> "slice", made |-> thr[t].made,
                       op |-> thr[t].op, n |-> thr[t].n,
                       items |-> list(name, q), seen |-> q,
                       after |-> Len(hist),
                       amid |-> \E u \in DOMAIN thr : thr[u].pc \in Critical]]
    /\ UNCHANGED <<maxlen, window, agg_buf, aggs, agg_cutoff, clock, flags,
                   hist, agg_buf_ids, agg_members, lock, optVars, gridVars>>

\* outside the lock: return items[-n:], or the statistics of the snapshot
QueryReturn(t) ==
    /\ thr[t].pc = "slice"
    /\ thr' = [thr EXCEPT ![t] =
                  [pc |-> "done", made |-> thr[t].made,
                   op |-> thr[t].op, n |-> thr[t].n,
                   items |-> thr[t].items, seen |-> thr[t].seen,
                   after |-> thr[t].after, amid |-> thr[t].amid,
                   result |->
                       IF thr[t].op = "rolling_stats"
                       THEN rolling_stats(Contents(thr[t].items))
                       ELSE list("copy", slice_last(Contents(thr[t].items),
                                                    thr[t].n))]]
    /\ UNCHANGED <<maxlen, window, agg_buf, aggs, agg_cutoff, clock, flags,
                   hist, agg_buf_ids, agg_members, lock, optVars, gridVars>>

\* two threads on a fresh pipeline of capacity 1 or 2
ThreadInit ==
    /\ OptStart
    /\ GridStart
    /\ maxlen \in {1, 2}
    /\ window = <<>>
    /\ agg_buf = <<>>
    /\ aggs = <<>>
    /\ agg_cutoff = None
    /\ clock = 0
    /\ flags = <<>>
    /\ hist = <<>>
    /\ agg_buf_ids = <<>>
    /\ agg_members = <<>>
    /\ lock = Free
    /\ thr = <<[pc |-> "idle", made |-> 0], [pc |-> "idle", made |-> 0]>>

ThreadNext ==
    \/ ThreadClock
    \/ \E t \in DOMAIN thr : IngestCall(t)
    \/ \E t \in DOMAIN thr : IngestAcquire(t)
    \/ \E t \in DOMAIN thr : IngestAppend(t)
    \/ \E t \in DOMAIN thr : IngestBuffer(t)
    \/ \E t \in DOMAIN thr : IngestCheck(t)
    \/ \E t \in DOMAIN thr : IngestFlush(t)
    \/ \E t \in DOMAIN thr : IngestReset(t)
    \/ \E t \in DOMAIN thr : IngestDetect(t)
    \/ \E t \in DOMAIN thr : QueryCall(t)
    \/ \E t \in DOMAIN thr : QueryCopy(t)
    \/ \E t \in DOMAIN thr : QueryReturn(t)

SpecThreads == ThreadInit /\ [][ThreadNext]_vars

\* The pipeline after a day of readings.  HistoryAfter(j, t0, n) is the state
\* of a pipeline of capacity n after j >= 2 ingests of the same reading, 5
\* minutes apart from t0 on: the second ingest closes a bin with the first
\* two readings and every later one a bin with itself, each stamped with the
\* cutoff the ingest arrived at, and the deque keeps the last AGGS_MAXLEN.
DayReading == [solar_kw |-> 0, load_kw |-> 20]

HistoryAfter(j, t0, n) ==
    LET ts(i)      == t0 + (i - 1) * AGGREGATE_MINUTES
        members(b) == IF b = 1 THEN <<1, 2>> ELSE <<b + 1>>
        bin(b)     == AggregateBin([i \in DOMAIN members(b) |-> DayReading],
                                   ts(b + 1))
        kept       == Min(j - 1, AGGS_MAXLEN)
    IN  /\ maxlen = n
        /\ window = [i \in 1..Min(j, n) |-> DayReading]
        /\ agg_buf = <<>>
        /\ agg_buf_ids = <<>>
        /\ aggs = [b \in 1..kept |-> bin(j - 1 - kept + b)]
        /\ agg_members = [b \in 1..kept |-> members(j - 1 - kept + b)]
        /\ agg_cutoff = ts(j) + AGGREGATE_MINUTES
        /\ clock = ts(j)
        /\ flags = <<>>
        /\ hist = [i \in 1..j |-> [reading |-> DayReading, ts |-> ts(i)]]

\* one thread on a pipeline whose bin history is one bin short of full, or
\* full, the last of the day's ingests being made at time 0
HistoryInit ==
    /\ OptStart
    /\ GridStart
    /\ \E j \in {AGGS_MAXLEN, AGGS_MAXLEN + 1} :
          HistoryAfter(j, 0 - (j - 1) * AGGREGATE_MINUTES, 2)
    /\ lock = Free
    /\ thr = <<[pc |-> "idle", made |-> 0]>>

SpecHistory == HistoryInit /\ [][ThreadNext]_vars

---------------------------------------------------------------------------
\* Properties of the dispatch result

Results == {calls[i].result : i \in DOMAIN calls}

\* C4: in every dispatch result, in every mode and for every input,
\* grid_import_kw and grid_export_kw are both non-negative and are never both
\* positive.
C4_ImportExportExclusive ==
    \A r \in Results :
        /\ r.grid_import_kw >= 0
        /\ r.grid_export_kw >= 0
        /\ ~(r.grid_import_kw > 0 /\ r.grid_export_kw > 0)

\* C4 witness: a manual charge that the surplus does not cover has been
\* decided, so the grid imports the difference while generation is positive.
C4_Witness ==
    /\ args.mode = "MANUAL_CHARGE"
    /\ args.solar + args.wind - args.load > 0
    /\ \E r \in Results : r.grid_import_kw > 0 /\ r.grid_export_kw = 0

\* C5 (as claimed): grid_export_kw never exceeds GRID_MAX_EXPORT_KW, whatever
\* mode produced the export (AUTO, MANUAL_CHARGE and MANUAL_DISCHARGE alike).
C5_ExportWithinCeiling ==
    \A r \in Results : r.grid_export_kw <= GRID_MAX_EXPORT_KW * 100

\* C6: in every dispatch result, in every mode and for every manual override
\* value, the magnitude of battery_power_kw never exceeds battery_max_pw_kw.
C6_BatteryWithinRated ==
    \A r \in Results : Abs(r.battery_power_kw) * PwScale <= args.max_pw

\* C6 witness: a manual charge with an override above the rated power has been
\* decided and the battery charges at exactly the rated power.
C6_Witness ==
    /\ args.mode = "MANUAL_CHARGE"
    /\ args.override > args.max_pw
    /\ \E r \in Results : r.battery_power_kw * PwScale = args.max_pw

---------------------------------------------------------------------------
\* Properties of the battery SOC and its two writers

\* battery powers far beyond the rated 20 kW, centi-kW
ExtremePowers == {-2000000, -2001, 2001, 2000000}

InBand(soc, lo, hi) == Pct(lo) <= soc /\ soc <= Pct(hi)

\* C1: after every SOC update the stored SOC is within the band of the path
\* that wrote it, 5 <= SOC <= 95 after a simulated tick and 0 <= SOC <= 100
\* after an external ingest, over any sequence of ticks and ingests; and from
\* every SOC the program reaches, each write keeps to its band for
\* arbitrarily large positive or negative battery powers as well.
C1_SocWithinBand ==
    /\ lastUpdate.path = "tick" => InBand(sensor_state, 5, 95)
    /\ lastUpdate.path = "ingest" => InBand(sensor_state, 0, 100)
    /\ \A bp \in ExtremePowers :
          /\ InBand(tick_soc(sensor_state, bp), 5, 95)
          /\ InBand(ingest_soc(sensor_state, bp), 0, 100)

\* C1 witness: a tick has just written the SOC of a charging battery whose
\* SOC was above 95 % (where ingests can leave it), and the write stopped
\* at 95 %.
C1_Witness ==
    /\ lastUpdate.path = "tick"
    /\ lastUpdate.base > Pct(95)
    /\ lastUpdate.bp > 0
    /\ sensor_state = Pct(95)

\* C3: the read-decide-write of the SOC by a tick and by an ingest that
\* overlap is serialized: while a decision waits for its write the SOC is
\* still the value the decision was computed from, every write adds its delta
\* to that same value, and the stored SOC is the value of the last write.
C3_ReadDecideWriteSerialized ==
    /\ tickPc = "decided" => tickLocal.read = sensor_state
    /\ ingestPc = "decided" => ingestLocal.read = sensor_state
    /\ lastUpdate.path # "none" =>
          /\ lastUpdate.read = lastUpdate.base
          /\ sensor_state = lastUpdate.new

\* C3 witness: a tick has written the SOC and still awaits the database when
\* an ingest decides on the SOC the tick wrote and writes its own delta.
C3_Witness ==
    /\ tickPc = "await_db"
    /\ ingestPc = "await_db"
    /\ nUpdates = 2
    /\ lastUpdate.path = "ingest"
    /\ lastUpdate.bp # 0
    /\ lastUpdate.new # lastUpdate.base

---------------------------------------------------------------------------
\* Properties of the ingestion pipeline (SpecPipe)

\* the readings ingested so far, oldest first
Ingested == [i \in DOMAIN hist |-> hist[i].reading]

\* the last n elements of q
LastN(q, n) == [i \in 1..n |-> q[Len(q) - n + i]]

\* C2: the rolling window never holds more than its capacity, and it always
\* equals the last min(k, N) of the k readings ingested, in ingestion order.
C2_WindowIsNewestFifo ==
    /\ Len(window) <= maxlen
    /\ window = LastN(Ingested, Min(Len(hist), maxlen))

\* C2 witness: more readings than the capacity have been ingested, so the
\* oldest ones have been evicted, and the ones kept differ from each other
\* and from the first one ingested.
C2_Witness ==
    /\ maxlen >= 2
    /\ Len(hist) > maxlen + 1
    /\ window[1] # window[2]
    /\ window[1] # hist[1].reading

\* the readings of hist ingested at a time in [from, to)
IngestedWithin(from, to) ==
    LET inside == SelectSeq(hist, LAMBDA h : from <= h.ts /\ h.ts < to)
    IN  [i \in DOMAIN inside |-> inside[i].reading]

\* C8: every aggregate bin's mean for a field is the mean (rounded to three
\* decimals) of exactly the readings ingested inside the bin's window, the
\* AGGREGATE_MINUTES before its cutoff; the reading whose arrival at or after
\* the cutoff triggers the flush is not averaged in.
C8_BinMeanOverItsWindow ==
    \A b \in DOMAIN aggs : \A i \in DOMAIN NUMERIC_FIELDS :
        aggs[b][NUMERIC_FIELDS[i]] =
            MeanRound3(FieldValues(
                IngestedWithin(aggs[b].timestamp - AGGREGATE_MINUTES,
                               aggs[b].timestamp),
                NUMERIC_FIELDS[i]))

---------------------------------------------------------------------------
\* Properties of anomaly detection (SpecAnomaly)

\* the reading of the latest ingest, whose flags are in flags
NewReading == hist[Len(hist)].reading

\* the fields that the latest ingest flagged
FlaggedFields == {flags[i].field : i \in DOMAIN flags}

MonitoredFields == {MONITORED_FIELDS[i] : i \in DOMAIN MONITORED_FIELDS}

\* the sample standard deviation of values is at least 0.1 (1 unit):
\* (n * sum(x^2) - sum(x)^2) / (n * (n - 1)) >= 1
AboveFloor(values) ==
    Len(values) * SumSqSeq(values) - SumSeq(values) * SumSeq(values)
        >= Len(values) * (Len(values) - 1)

\* every reading that carries the field carries the same value
Identical(readings, field) ==
    \A i \in DOMAIN readings :
        field \in DOMAIN readings[i] =>
            \A j \in 1..(i - 1) :
                field \in DOMAIN readings[j] =>
                    readings[j][field] = readings[i][field]

\* C9: ingest flags a monitored field only if at least 30 readings are
\* buffered, at least 10 of them carry the field and the sample standard
\* deviation of the field is at least 0.1; a window of identical values for
\* a field never yields a flag for it.
C9_FlagsOnlyPastGuards ==
    /\ \A f \in FlaggedFields :
          /\ f \in MonitoredFields
          /\ Len(window) >= 30
          /\ Len(FieldValues(window, f)) >= 10
          /\ AboveFloor(FieldValues(window, f))
    /\ \A f \in MonitoredFields :
          Identical(window, f) => f \notin FlaggedFields

\* C9 witness: a flag is raised by the ingest that brings the window to 30
\* readings, for a field that had been constant until then.
C9_Witness ==
    /\ Len(window) = 30
    /\ Len(AfterBurst) > 0
    /\ \E f \in FlaggedFields :
          /\ f \in DOMAIN NewReading
          /\ Identical(SubSeq(window, 1, Len(window) - 1), f)

\* |val - mean| > k * sigma over values, for the sample standard deviation
\* sigma: (n * val - sum)^2 / n^2 > k^2 * (n * sumsq - sum^2) / (n * (n - 1))
Beyond(val, values, k) ==
    LET n == Len(values)
    IN  (n * val - SumSeq(values)) * (n * val - SumSeq(values)) * (n - 1)
            > k * k * n * (n * SumSqSeq(values) - SumSeq(values) * SumSeq(values))

GuardsPass(f) ==
    /\ Len(window) >= 30
    /\ Len(FieldValues(window, f)) >= 10
    /\ AboveFloor(FieldValues(window, f))

\* C10: when the guards pass, a monitored field of the new reading is flagged
\* exactly when |value - mean| > 3 * sigma over the buffered values of the
\* field, and the flag carries that value and is HIGH exactly when
\* |value - mean| > 6 * sigma, otherwise MEDIUM.
C10_FlagAndSeverityByDeviation ==
    \A f \in MonitoredFields \cap DOMAIN NewReading :
        GuardsPass(f) =>
            /\ f \in FlaggedFields
                  <=> Beyond(NewReading[f], FieldValues(window, f), 3)
            /\ \A i \in DOMAIN flags :
                  flags[i].field = f =>
                      /\ flags[i].value = NewReading[f]
                      /\ flags[i].severity =
                            IF Beyond(NewReading[f], FieldValues(window, f), 6)
                            THEN "HIGH" ELSE "MEDIUM"

\* C10 witness: one ingest raised a HIGH flag, and the next one, of a value
\* closer to the mean, a MEDIUM flag for the same field.
C10_Witness ==
    /\ Len(AfterBurst) = 2
    /\ flags # <<>>
    /\ flags[1].severity = "MEDIUM"
    /\ flags[1].field \in DOMAIN NewReading
    /\ LET before == SubSeq(window, 1, Len(window) - 1)
           f      == flags[1].field
       IN  /\ f \in DOMAIN before[Len(before)]
           /\ Beyond(before[Len(before)][f], FieldValues(before, f), 6)

---------------------------------------------------------------------------
\* Properties of the dispatch rules (SpecOpt).  Powers are compared where the
\* program returns them, rounded to 0.01 kW.

\* generation - load of the arguments, fine units
Surplus == args.solar + args.wind - args.load

\* the call was made in the peak-pricing band, 14:00 to 18:59 local time
AtPeak(c) == 14 * 60 <= c.time /\ c.time < 19 * 60

\* the energy between the SOC and 100 %, as the power that moves it in one
\* 5 s tick: (100 - soc) / 100 * cap kWh / (5 / 3600 h), fine units
HeadroomToFull == (Pct(100) - args.soc) * args.cap

\* the energy between the 5 % floor and the SOC, as a power likewise
HeadroomAboveFloor == (args.soc - Pct(5)) * args.cap

\* forecast surplus > 15 kWh, SOC > 70 % and peak-pricing band
DelayedChargeCase(c) ==
    args.forecast > 15 /\ args.soc > Pct(70) /\ AtPeak(c)

\* C11: in AUTO mode with surplus > 0 and no delayed-charge exception, the
\* battery power is min(surplus, rated power, headroom to 100 % SOC as power
\* over one tick) and the grid import is 0; generation 40, load 20, SOC 50,
\* rated 20, capacity 80, forecast 0 off peak gives battery +20 kW, export 0
\* and NORMAL_BALANCING.
C11_DefaultCharge ==
    \A i \in DOMAIN calls :
        (args.mode = "AUTO" /\ Surplus > 0 /\ ~DelayedChargeCase(calls[i])) =>
            /\ calls[i].result.battery_power_kw =
                  Round2(Min(Surplus, Min(args.max_pw, HeadroomToFull)))
            /\ calls[i].result.grid_import_kw = 0
            /\ (/\ args.solar + args.wind = Kw(40)
                /\ args.load = Kw(20)
                /\ args.soc = Pct(50)
                /\ args.max_pw = Kw(20)
                /\ args.cap = 80
                /\ args.forecast = 0
                /\ ~AtPeak(calls[i]))
               => /\ calls[i].result.battery_power_kw = 2000
                  /\ calls[i].result.grid_export_kw = 0
                  /\ calls[i].result.strategy = "NORMAL_BALANCING"

\* C11 witness: the scenario of the claim has been decided off peak and again
\* in the peak band (generation 40, load 20, SOC 50, rated 20, capacity 80,
\* forecast 0), and the battery charges at the rated 20 kW both times.
C11_Witness ==
    /\ args.mode = "AUTO"
    /\ args.solar = Kw(40) /\ args.wind = 0 /\ args.load = Kw(20)
    /\ args.soc = Pct(50) /\ args.max_pw = Kw(20) /\ args.cap = 80
    /\ args.forecast = 0
    /\ Len(calls) = 2
    /\ ~AtPeak(calls[1]) /\ AtPeak(calls[2])
    /\ calls[1].result.battery_power_kw = 2000
    /\ calls[2].result.battery_power_kw = 2000

\* forecast surplus < -10 kWh, outside the peak-pricing band and SOC < 40 %
SaveBatteryCase(c) ==
    args.forecast < -10 /\ ~AtPeak(c) /\ args.soc < Pct(40)

\* the default discharge: max(0, min(deficit, rated power, headroom above
\* the 5 % floor as power over one tick)), fine units
DefaultDischarge ==
    Max(0, Min(-Surplus, Min(args.max_pw, HeadroomAboveFloor)))

\* C12: in AUTO mode with surplus <= 0 and no save-battery exception, the
\* discharge is max(0, min(deficit, rated power, headroom above the 5 % floor
\* as power)) and the grid import is the deficit minus the discharge; at or
\* below the 5 % floor the discharge is 0 and the whole deficit is imported
\* (generation 10, load 30, SOC 3, rated 20: battery 0, import 20).
C12_DefaultDischarge ==
    \A i \in DOMAIN calls :
        (args.mode = "AUTO" /\ Surplus <= 0 /\ ~SaveBatteryCase(calls[i])) =>
            /\ calls[i].result.battery_power_kw = -Round2(DefaultDischarge)
            /\ calls[i].result.grid_import_kw =
                  Round2(-Surplus - DefaultDischarge)
            /\ args.soc <= Pct(5) =>
                  /\ calls[i].result.battery_power_kw = 0
                  /\ calls[i].result.grid_import_kw = Round2(-Surplus)
            /\ (/\ args.solar + args.wind = Kw(10)
                /\ args.load = Kw(30)
                /\ args.soc = Pct(3)
                /\ args.max_pw = Kw(20))
               => /\ calls[i].result.battery_power_kw = 0
                  /\ calls[i].result.grid_import_kw = 2000

\* C12 witness: the scenario of the claim has been decided (generation 10,
\* load 30, SOC 3 %, rated 20): no discharge, 20 kW imported.
C12_Witness ==
    /\ args.mode = "AUTO"
    /\ args.solar = Kw(10) /\ args.wind = 0 /\ args.load = Kw(30)
    /\ args.soc = Pct(3) /\ args.max_pw = Kw(20)
    /\ calls # <<>>
    /\ ~SaveBatteryCase(calls[1])
    /\ calls[1].result.battery_power_kw = 0
    /\ calls[1].result.grid_import_kw = 2000

\* C13: in AUTO mode with surplus > 0, when forecast surplus > 15 kWh,
\* SOC > 70 % and the call is in the peak-pricing band, the battery power is 0
\* and the whole surplus is exported up to the export ceiling, with strategy
\* DELAYED_CHARGE_EXPORTING when the surplus does not exceed the ceiling and
\* a curtailment strategy when it does; if one of the three conditions fails
\* (forecast exactly 15 and SOC exactly 70 included) the default charge is
\* taken.
C13_DelayedCharge ==
    \A i \in DOMAIN calls :
        (args.mode = "AUTO" /\ Surplus > 0) =>
            IF DelayedChargeCase(calls[i])
            THEN /\ calls[i].result.battery_power_kw = 0
                 /\ calls[i].result.grid_export_kw =
                       Min(Round2(Surplus), GRID_MAX_EXPORT_KW * 100)
                 /\ calls[i].result.strategy =
                       IF Round2(Surplus) <= GRID_MAX_EXPORT_KW * 100
                       THEN "DELAYED_CHARGE_EXPORTING" ELSE "CURTAILING_GEN"
            ELSE /\ calls[i].result.battery_power_kw =
                       Round2(Min(Surplus, Min(args.max_pw, HeadroomToFull)))
                 /\ calls[i].result.strategy # "DELAYED_CHARGE_EXPORTING"

\* C13 witness: a surplus of 30 kW at SOC 75 % with a forecast above 15 kWh
\* has been decided at 13:59, where the battery charges, and again in the
\* peak band, where charging is withheld and the 30 kW are exported.
C13_Witness ==
    /\ args.mode = "AUTO"
    /\ Surplus = Kw(30)
    /\ args.soc = Pct(75)
    /\ args.forecast > 15
    /\ Len(calls) = 2
    /\ ~AtPeak(calls[1])
    /\ calls[1].result.battery_power_kw > 0
    /\ AtPeak(calls[2])
    /\ calls[2].result.battery_power_kw = 0
    /\ calls[2].result.grid_export_kw = 3000
    /\ calls[2].result.strategy = "DELAYED_CHARGE_EXPORTING"

\* C14: in AUTO mode with a deficit, when forecast surplus < -10 kWh, the
\* call is outside the peak-pricing band and SOC < 40 %, the battery power is
\* 0, the whole deficit is imported and the strategy is
\* GRID_IMPORT_SAVE_BATTERY; this exception and PEAK_GRID_IMPORT_WARNING never
\* apply to the same call: a call labelled PEAK_GRID_IMPORT_WARNING is in the
\* peak band and discharges as the default path does.
C14_SaveBattery ==
    \A i \in DOMAIN calls :
        (args.mode = "AUTO" /\ Surplus <= 0) =>
            /\ SaveBatteryCase(calls[i]) =>
                  /\ calls[i].result.battery_power_kw = 0
                  /\ calls[i].result.grid_import_kw = Round2(-Surplus)
                  /\ calls[i].result.strategy = "GRID_IMPORT_SAVE_BATTERY"
            /\ calls[i].result.strategy = "PEAK_GRID_IMPORT_WARNING" =>
                  /\ ~SaveBatteryCase(calls[i])
                  /\ calls[i].result.battery_power_kw =
                        -Round2(DefaultDischarge)
            /\ calls[i].result.strategy = "GRID_IMPORT_SAVE_BATTERY" =>
                  ~AtPeak(calls[i])

\* C14 witness: a deficit with a forecast below -10 kWh and a battery between
\* the floor and 40 % has been decided at 13:59, where discharge is withheld
\* and the deficit imported, and again in the peak band, where the battery
\* discharges and the rest is imported under PEAK_GRID_IMPORT_WARNING.
C14_Witness ==
    /\ args.mode = "AUTO"
    /\ Surplus < 0
    /\ args.forecast < -10
    /\ Pct(5) < args.soc /\ args.soc < Pct(40)
    /\ Len(calls) = 2
    /\ ~AtPeak(calls[1])
    /\ calls[1].result.strategy = "GRID_IMPORT_SAVE_BATTERY"
    /\ calls[1].result.battery_power_kw = 0
    /\ calls[1].result.grid_import_kw = Round2(-Surplus)
    /\ AtPeak(calls[2])
    /\ calls[2].result.strategy = "PEAK_GRID_IMPORT_WARNING"
    /\ calls[2].result.battery_power_kw < 0

\* C15: in AUTO mode with a deficit, the strategy is PEAK_GRID_IMPORT_WARNING
\* exactly when the call is in the peak-pricing band and a deficit remains
\* after the battery discharge; the label is informational only: battery power
\* and grid import are those of the same inputs outside the band on the
\* default discharge path.
C15_PeakWarningIsLabelOnly ==
    \A i \in DOMAIN calls :
        (args.mode = "AUTO" /\ Surplus <= 0) =>
            /\ calls[i].result.strategy = "PEAK_GRID_IMPORT_WARNING"
                  <=> (AtPeak(calls[i]) /\ -Surplus - DefaultDischarge > 0)
            /\ \A j \in DOMAIN calls :
                  (/\ AtPeak(calls[i])
                   /\ ~AtPeak(calls[j])
                   /\ ~SaveBatteryCase(calls[j]))
                  => /\ calls[i].result.battery_power_kw =
                           calls[j].result.battery_power_kw
                     /\ calls[i].result.grid_import_kw =
                           calls[j].result.grid_import_kw

\* C15 witness: a deficit larger than the battery can cover has been decided
\* at 13:59 on the default path and again in the peak band: the second result
\* carries the warning and the same battery power and import as the first.
C15_Witness ==
    /\ args.mode = "AUTO"
    /\ Len(calls) = 2
    /\ ~AtPeak(calls[1])
    /\ calls[1].result.strategy = "NORMAL_BALANCING"
    /\ calls[1].result.battery_power_kw < 0
    /\ calls[1].result.grid_import_kw > 0
    /\ AtPeak(calls[2])
    /\ calls[2].result.strategy = "PEAK_GRID_IMPORT_WARNING"
    /\ calls[2].result.battery_power_kw = calls[1].result.battery_power_kw
    /\ calls[2].result.grid_import_kw = calls[1].result.grid_import_kw

\* the surplus left after the charge a result decided, rounded to 0.01 kW as
\* the program does before it compares it with the ceiling, centi-kW
RemainingSurplus(r) == Round2(Max(0, Surplus - r.battery_power_kw * PwScale))

\* C16: in AUTO mode, when the surplus remaining after the charge decision
\* exceeds the export ceiling, grid_export_kw equals the ceiling and the
\* strategy label carries the curtailed amount, remaining surplus - ceiling
\* (to 0.1 kW); when it does not exceed the ceiling nothing is curtailed and
\* grid_export_kw equals the remaining surplus.
C16_Curtailment ==
    \A r \in Results :
        (args.mode = "AUTO" /\ Surplus > 0) =>
            IF RemainingSurplus(r) > GRID_MAX_EXPORT_KW * 100
            THEN /\ r.grid_export_kw = GRID_MAX_EXPORT_KW * 100
                 /\ r.strategy = "CURTAILING_GEN"
                 /\ r.curtailed_kw =
                       Round1(RemainingSurplus(r) - GRID_MAX_EXPORT_KW * 100)
            ELSE /\ r.grid_export_kw = RemainingSurplus(r)
                 /\ r.strategy # "CURTAILING_GEN"
                 /\ r.curtailed_kw = 0

\* C16 witness: generation 100.06 kW with no load has been decided; the
\* battery takes 20 kW, 50 kW are exported and the label carries the 30.06 kW
\* that are curtailed as 30.1.
C16_Witness ==
    /\ args.mode = "AUTO"
    /\ Surplus = Kw(100) + 6 * PwScale
    /\ \E r \in Results :
          /\ r.battery_power_kw = 2000
          /\ r.grid_export_kw = GRID_MAX_EXPORT_KW * 100
          /\ r.strategy = "CURTAILING_GEN"
          /\ r.curtailed_kw = 301

\* the manual rate as claimed: the override if one is given (> 0), else the
\* rated power
ClaimedManualRate ==
    IF args.override > 0 THEN args.override ELSE args.max_pw

\* the manual rate: the same, capped at the rated power
CappedManualRate == Min(args.max_pw, ClaimedManualRate)

\* strategy and grid flows of a manual charge at the power charge (fine
\* units): the grid covers charge - surplus or takes surplus - charge
ManualChargeFlows(r, charge) ==
    /\ r.battery_power_kw = Round2(charge)
    /\ r.strategy = "MANUAL_CHARGE"
    /\ r.grid_import_kw = Round2(Max(0, charge - Surplus))
    /\ r.grid_export_kw = Round2(Max(0, Surplus - charge))

\* C17 (as claimed): in MANUAL_CHARGE, whatever the forecast, hour and
\* surplus, battery power = min(override rate if specified (> 0) else rated
\* max, headroom to 100 % SOC as power over the tick), the strategy is
\* MANUAL_CHARGE, import = max(0, charge - surplus) and export =
\* max(0, surplus - charge).
C17_ManualChargeAtOverride ==
    \A r \in Results :
        args.mode = "MANUAL_CHARGE" =>
            ManualChargeFlows(r, Min(ClaimedManualRate, HeadroomToFull))

\* C17 (amended): the same with the override capped at the rated power:
\* battery power = min(rated max, override rate if specified (> 0) else rated
\* max, headroom to 100 % SOC as power over the tick).
C17_ManualChargeAtCappedOverride ==
    \A r \in Results :
        args.mode = "MANUAL_CHARGE" =>
            ManualChargeFlows(r, Min(CappedManualRate, HeadroomToFull))

\* C17 witness: a manual charge with an override of 5 kW has been decided in
\* the peak band with a surplus, SOC 75 % and a forecast above 15 kWh, where
\* AUTO would withhold charging: the battery charges at 5 kW and the rest of
\* the surplus is exported.
C17_Witness ==
    /\ args.mode = "MANUAL_CHARGE"
    /\ args.override = Kw(5)
    /\ args.max_pw = Kw(20)
    /\ args.forecast > 15
    /\ args.soc = Pct(75)
    /\ Surplus > Kw(5)
    /\ \E i \in DOMAIN calls :
          /\ AtPeak(calls[i])
          /\ calls[i].result.battery_power_kw = 500
          /\ calls[i].result.grid_export_kw = Round2(Surplus - Kw(5))
          /\ calls[i].result.grid_import_kw = 0
          /\ calls[i].result.strategy = "MANUAL_CHARGE"

\* strategy and grid flows of a manual discharge at the power discharge (fine
\* units): the grid absorbs surplus + discharge
ManualDischargeFlows(r, discharge) ==
    /\ r.battery_power_kw = -Round2(Max(0, discharge))
    /\ r.battery_power_kw <= 0
    /\ args.soc <= Pct(5) => r.battery_power_kw = 0
    /\ r.strategy = "MANUAL_DISCHARGE"
    /\ r.grid_import_kw = Round2(Max(0, -(Surplus + Max(0, discharge))))
    /\ r.grid_export_kw = Round2(Max(0, Surplus + Max(0, discharge)))

\* C18 (as claimed): in MANUAL_DISCHARGE battery power = -max(0, min(override
\* rate if specified else rated max, headroom above the 5 % SOC floor as
\* power over the tick)), so it is 0 whenever SOC <= 5 % and never positive;
\* the strategy is MANUAL_DISCHARGE and grid import and export absorb surplus
\* + discharge.
C18_ManualDischargeAtOverride ==
    \A r \in Results :
        args.mode = "MANUAL_DISCHARGE" =>
            ManualDischargeFlows(r, Min(ClaimedManualRate, HeadroomAboveFloor))

\* C18 (amended): the same with the override capped at the rated power:
\* battery power = -max(0, min(rated max, override rate if specified else
\* rated max, headroom above the 5 % SOC floor as power over the tick)).
C18_ManualDischargeAtCappedOverride ==
    \A r \in Results :
        args.mode = "MANUAL_DISCHARGE" =>
            ManualDischargeFlows(r, Min(CappedManualRate, HeadroomAboveFloor))

\* C18 witness: a manual discharge has been decided for a battery below the
\* 5 % floor while load exceeds generation: the battery stays idle and the
\* grid covers the deficit.
C18_Witness ==
    /\ args.mode = "MANUAL_DISCHARGE"
    /\ args.soc < Pct(5)
    /\ Surplus < 0
    /\ \E r \in Results :
          /\ r.battery_power_kw = 0
          /\ r.grid_import_kw = Round2(-Surplus)
          /\ r.grid_import_kw > 0
          /\ r.grid_export_kw = 0
          /\ r.strategy = "MANUAL_DISCHARGE"

---------------------------------------------------------------------------
\* Properties of the SOC advance step (SpecGrid)

\* 100 times the SOC (SOC units) that the claimed step writes from the SOC
\* soc and the battery power bp (centi-kW) in the band [lo, hi] percent:
\* clamp(soc + bp * (5 / 3600) * 0.95 / BATTERY_CAP_KWH * 100)
ClaimedAdvance(soc, bp, lo, hi) ==
    Max(Pct(lo) * 100, Min(Pct(hi) * 100, soc * 100 + bp * 95 * SocPerTick))

\* C19 (as claimed): every path that updates the battery SOC writes
\* clamp(old SOC + battery power x elapsed hours x efficiency / capacity x
\* 100): the simulated tick (which then rounds to 0.01 %) and the external
\* ingest apply the same energy delta, efficiency included, for the same
\* battery power.
C19_SameAdvanceOnEveryPath ==
    /\ lastUpdate.path = "tick" =>
          Abs(lastUpdate.new * 100
              - ClaimedAdvance(lastUpdate.base, lastUpdate.bp, 5, 95))
             <= 50 * SocCenti
    /\ lastUpdate.path = "ingest" =>
          lastUpdate.new * 100
             = ClaimedAdvance(lastUpdate.base, lastUpdate.bp, 0, 100)

\* a step in which a handler gets its dispatch decision from the optimizer
DecisionStep ==
    \/ tickPc # "decided" /\ tickPc' = "decided"
    \/ ingestPc # "decided" /\ ingestPc' = "decided"

\* a step that advances the SOC once, by the battery power of the tick's
\* pending decision
TickAdvanceStep ==
    /\ tickPc = "decided"
    /\ tickPc' = "await_db"
    /\ ingestPc' = ingestPc
    /\ nUpdates' = nUpdates + 1
    /\ sensor_state' = tick_soc(sensor_state, tickLocal.opt.battery_power_kw)

\* the same for the pending decision of ingest_data
IngestAdvanceStep ==
    /\ ingestPc = "decided"
    /\ ingestPc' = "await_db"
    /\ tickPc' = tickPc
    /\ nUpdates' = nUpdates + 1
    /\ sensor_state' =
          ingest_soc(sensor_state, ingestLocal.opt.battery_power_kw)

\* C20: optimize_power_flow never changes the battery SOC: no step in which a
\* decision is taken changes it; the SOC changes only in the advance step
\* that follows a decision, and each decision is followed by exactly one
\* advance, which uses that decision's battery power: a pending decision is
\* left only by its advance, and an advance is made only for a pending
\* decision.
C20_OptimizerLeavesSocToAdvance ==
    [][/\ DecisionStep =>
             sensor_state' = sensor_state /\ nUpdates' = nUpdates
       /\ (sensor_state' # sensor_state \/ nUpdates' # nUpdates) =>
             TickAdvanceStep \/ IngestAdvanceStep
       /\ (tickPc = "decided" /\ tickPc' # "decided") => TickAdvanceStep
       /\ (ingestPc = "decided" /\ ingestPc' # "decided") => IngestAdvanceStep
      ]_vars

\* C20 witness: an ingest has advanced the SOC by its decision's battery
\* power, and the tick has since taken a decision to move the battery that
\* has not changed the SOC the ingest wrote.
C20_Witness ==
    /\ nUpdates = 1
    /\ lastUpdate.path = "ingest"
    /\ lastUpdate.bp # 0
    /\ lastUpdate.new # lastUpdate.base
    /\ tickPc = "decided"
    /\ tickLocal.opt.battery_power_kw # 0
    /\ sensor_state = lastUpdate.new

---------------------------------------------------------------------------
\* Properties of the published reading (SpecGrid)

\* C21: every reading published by a simulated tick or by an external
\* ingest has total_generation_kw = solar_kw + wind_kw, the normalised
\* values, whatever the payload carried.
C21_TotalIsSolarPlusWind ==
    latest_reading # <<>> =>
        latest_reading.total_generation_kw
            = latest_reading.solar_kw + latest_reading.wind_kw

\* an ingested payload with a negative solar_kw was published: solar_kw is
\* normalised to 0 and the total is the wind alone
C21_Witness ==
    /\ lastUpdate.path = "ingest"
    /\ latest_reading # <<>>
    /\ latest_reading.load_kw = Kw(30) + 30
    /\ latest_reading.solar_kw = 0
    /\ latest_reading.wind_kw = 50
    /\ latest_reading.total_generation_kw = 50

---------------------------------------------------------------------------
\* Properties of the peak-pricing band (SpecOpt)

\* the call was made at a local time after 18:00
AfterEighteen(c) == c.time > 18 * 60

\* C30: the peak-pricing band is exactly 14:00 to 18:00 local time: a call
\* made after 18:00 (18:30 for one) returns neither DELAYED_CHARGE_EXPORTING
\* nor PEAK_GRID_IMPORT_WARNING.
C30_NoPeakLabelAfterEighteen ==
    \A i \in DOMAIN calls :
        AfterEighteen(calls[i]) =>
            calls[i].result.strategy
                \notin {"DELAYED_CHARGE_EXPORTING", "PEAK_GRID_IMPORT_WARNING"}

---------------------------------------------------------------------------
\* Properties of payload normalisation (SpecNormalize)

\* the default process_sensor_payload takes for a field the payload lacks
DefaultOf(f) == IF f = "battery_soc_pct" THEN Pct(50) ELSE 0

\* C28: a payload whose numeric fields are missing or negative is normalised,
\* not rejected: the reading carries solar_kw, wind_kw, load_kw,
\* grid_import_kw and grid_export_kw >= 0 and 0 <= battery_soc_pct <= 100,
\* a missing field has its default (0, and 50 % for the SOC), and a value
\* already in range is kept.
C28_NormalizedWithinRange ==
    \A i \in DOMAIN calls :
        LET raw     == calls[i].raw
            reading == calls[i].reading
        IN  /\ PowerFields \cup {"battery_soc_pct"} \subseteq DOMAIN reading
            /\ \A f \in PowerFields : reading[f] >= 0
            /\ 0 <= reading.battery_soc_pct
            /\ reading.battery_soc_pct <= Pct(100)
            /\ \A f \in PowerFields \cup {"battery_soc_pct"} :
                  f \notin DOMAIN raw => reading[f] = DefaultOf(f)
            /\ \A f \in PowerFields \cap DOMAIN raw :
                  raw[f] >= 0 => reading[f] = raw[f]
            /\ ("battery_soc_pct" \in DOMAIN raw
                    /\ 0 <= raw.battery_soc_pct
                    /\ raw.battery_soc_pct <= Pct(100))
                  => reading.battery_soc_pct = raw.battery_soc_pct

\* C28 witness: a payload without solar_kw and battery_soc_pct, with a
\* negative load_kw and an ordinary wind_kw, has been normalised to solar 0,
\* SOC 50 %, load 0 and the wind as sent.
C28_Witness ==
    /\ calls # <<>>
    /\ DOMAIN calls[1].raw = {"wind_kw", "load_kw"}
    /\ calls[1].raw.load_kw < 0
    /\ calls[1].raw.wind_kw = Kw(10)
    /\ calls[1].reading.solar_kw = 0
    /\ calls[1].reading.battery_soc_pct = Pct(50)
    /\ calls[1].reading.load_kw = 0
    /\ calls[1].reading.wind_kw = Kw(10)

---------------------------------------------------------------------------
\* Properties of the tick under a failing weather fetch (SpecTick)

\* the tick has decided after a fetch that failed
DecidedAfterFailedFetch == tickPc = "decided" /\ tickLocal.fetch_failed

\* the tick has written the SOC and published its reading after a fetch that
\* failed
CompletedAfterFailedFetch ==
    /\ tickPc = "await_db"
    /\ lastUpdate.path = "tick"
    /\ lastUpdate.fetch_failed
    /\ sensor_state = lastUpdate.new
    /\ latest_reading # <<>>
    /\ latest_reading.battery_soc_pct = sensor_state

\* C29: a tick whose cloud-cover fetch fails goes on with cloud cover 0: every
\* tick that awaits the fetch comes to a dispatch decision, and a tick that
\* decided after a failed fetch used cloud cover 0 and goes on to write the
\* SOC and publish its reading.
C29_TickCompletesWhenFetchFails ==
    /\ [](DecidedAfterFailedFetch =>
             /\ tickLocal.cloud_cover = 0
             /\ tickLocal.opt.strategy # "")
    /\ (tickPc = "await_cloud") ~> (tickPc = "decided")
    /\ DecidedAfterFailedFetch ~> CompletedAfterFailedFetch

\* C29 witness: a tick completed after a failed fetch under a clear-sky solar
\* output of 50 kW, all of which was measured (cloud cover 0), and it moved
\* the SOC.
C29_Witness ==
    /\ CompletedAfterFailedFetch
    /\ latest_reading.solar_kw = Kw(50)
    /\ lastUpdate.new # lastUpdate.base

---------------------------------------------------------------------------
\* Properties of the bin timestamp (SpecPipe)

\* C26: every aggregate bin is stamped with its bin start: its timestamp is
\* not later than the ingest time of any reading averaged into it.
C26_BinStampedWithItsStart ==
    \A b \in DOMAIN aggs :
        \A i \in DOMAIN agg_members[b] :
            aggs[b].timestamp <= hist[agg_members[b][i]].ts

---------------------------------------------------------------------------
\* Properties of the pipeline called from several threads (SpecThreads)

\* the calls of op that have returned
Done(op) == {t \in DOMAIN thr : thr[t].pc = "done" /\ thr[t].op = op}

\* C22: for every n >= 0 and every window content, recent(n) returns exactly
\* the last min(n, window length) readings of the window, in ingestion order;
\* recent(0) returns no readings.
C22_RecentReturnsLastN ==
    \A t \in Done("recent") :
        Contents(thr[t].result) =
            LastN(thr[t].seen, Min(thr[t].n, Len(thr[t].seen)))

\* the threads inside the locked block of ingest
InCritical == {t \in DOMAIN thr : thr[t].pc \in Critical}

\* how many times the k-th ingested reading stands in the aggregation buffer
\* or among the readings averaged into a bin
Occurrences(q, k) == Cardinality({i \in DOMAIN q : q[i] = k})

Placed(k) ==
    Occurrences(agg_buf_ids, k)
        + SumSeq([b \in DOMAIN agg_members |->
                     Occurrences(agg_members[b], k)])

\* the readings at the positions ids of hist
ReadingsAt(ids) == [i \in DOMAIN ids |-> hist[ids[i]].reading]

\* C23: concurrent ingest calls behave as if executed one after another: at
\* most one call is inside the locked block, and it holds the lock; and
\* whenever no call is inside the block, the window holds the newest readings
\* in the order the calls went through, every ingested reading is exactly
\* once in the buffer or in one bin, and the buffer and each bin are made of
\* exactly the readings placed in them.
C23_IngestsSerialized ==
    /\ Cardinality(InCritical) <= 1
    /\ \A t \in InCritical : lock = t
    /\ InCritical = {} =>
          /\ lock = Free
          /\ window = LastN(Ingested, Min(Len(hist), maxlen))
          /\ \A k \in DOMAIN hist : Placed(k) = 1
          /\ agg_buf = ReadingsAt(agg_buf_ids)
          /\ Len(aggs) = Len(agg_members)
          /\ \A b \in DOMAIN aggs :
                aggs[b] = AggregateBin(ReadingsAt(agg_members[b]),
                                       aggs[b].timestamp)

\* C23 witness: three ingests have gone through, the first two of them in
\* the opposite order of their calls (the call that read the clock later took
\* the lock first) and the third closing a bin that averages all three.
C23_Witness ==
    /\ InCritical = {}
    /\ Len(hist) = 3
    /\ hist[1].ts > hist[2].ts
    /\ hist[1].reading # hist[2].reading
    /\ Len(aggs) = 1
    /\ agg_members[1] = <<1, 2, 3>>
    /\ agg_buf = <<>>

\* the calls of recent, aggregates and rolling_stats that hold their copy
Snapshots == {t \in DOMAIN thr : thr[t].pc \in {"slice", "done"}}

\* the window as it was when exactly k readings had been ingested
WindowAfter(k) == LastN(SubSeq(Ingested, 1, k), Min(k, maxlen))

\* C24: the list recent, aggregates and rolling_stats work on is a copy taken
\* under the lock: it was taken with no ingest inside its locked block, it is
\* the window after some whole number of ingests (the bin history as it then
\* was), ingests made since have changed neither it nor the list returned
\* from it, and what is returned is computed from it alone.
C24_SnapshotsAreCopies ==
    \A t \in Snapshots :
        /\ ~thr[t].amid
        /\ Contents(thr[t].items) = thr[t].seen
        /\ IF thr[t].op = "aggregates"
           THEN thr[t].seen = SubSeq(aggs, 1, Len(thr[t].seen))
           ELSE thr[t].seen = WindowAfter(thr[t].after)
        /\ thr[t].pc = "done" =>
              IF thr[t].op = "rolling_stats"
              THEN thr[t].result = rolling_stats(thr[t].seen)
              ELSE Contents(thr[t].result)
                       = slice_last(thr[t].seen, thr[t].n)

\* C24 witness: recent(1) has returned the one reading of a full window of
\* capacity 1, and an ingest made since has evicted that reading from the
\* window; the list returned still holds it.
C24_Witness ==
    \E t \in Done("recent") :
        /\ maxlen = 1
        /\ thr[t].n = 1
        /\ Len(thr[t].seen) = 1
        /\ Len(hist) > thr[t].after
        /\ window # thr[t].seen
        /\ Contents(thr[t].result) = thr[t].seen

\* the readings of snap that carry the field f, as positions in snap
Carrying(snap, f) == {i \in DOMAIN snap : f \in DOMAIN snap[i]}

\* the entry e is what the claim asks of a field that the readings at the
\* positions carrying of snap carry: the six keys, n the number of those
\* readings, min and max the least and the greatest of their values, latest
\* the value of the last of them, the mean the rounded sum over n, and std 0
\* when n = 1 (and positive only when two of the values differ)
FullEntry(e, snap, f, carrying) ==
    LET last == CHOOSE i \in carrying : \A j \in carrying : j <= i
        sum  == SumSeq(FieldValues(snap, f))
    IN  /\ DOMAIN e = {"mean", "std", "min", "max", "current", "n"}
        /\ e.n = Cardinality(carrying)
        /\ \A i \in carrying : e.min <= snap[i][f] * 100
        /\ \E i \in carrying : e.min = snap[i][f] * 100
        /\ \A i \in carrying : e.max >= snap[i][f] * 100
        /\ \E i \in carrying : e.max = snap[i][f] * 100
        /\ e.current = snap[last][f] * 100
        /\ 2 * Abs(e.mean * e.n - sum * 100) <= e.n
        /\ e.std >= 0
        /\ e.n = 1 => e.std = 0
        /\ e.std > 0 => e.min < e.max

\* C27: rolling_stats returns for an empty and for a sparse window as for a
\* full one: an entry for every tracked numeric field, empty for a field no
\* buffered reading carries, and otherwise mean, std, min, max, latest value
\* and the count n of the buffered readings carrying the field, std being 0
\* when n = 1.
C27_RollingStatsOnSparseWindow ==
    \A t \in Done("rolling_stats") :
        /\ DOMAIN thr[t].result
              = {NUMERIC_FIELDS[i] : i \in DOMAIN NUMERIC_FIELDS}
        /\ \A f \in DOMAIN thr[t].result :
              IF Carrying(thr[t].seen, f) = {}
              THEN DOMAIN thr[t].result[f] = {}
              ELSE FullEntry(thr[t].result[f], thr[t].seen, f,
                             Carrying(thr[t].seen, f))

\* C27 witness: rolling_stats has returned for a window of two readings, one
\* of them without solar_kw and none with wind_kw: solar_kw has n = 1 and
\* std 0, load_kw (2.0 and 3.5 kW) has n = 2, mean 2.75 and std 1.061, and
\* wind_kw has the empty entry.
C27_Witness ==
    \E t \in Done("rolling_stats") :
        /\ Len(thr[t].seen) = 2
        /\ Cardinality(Carrying(thr[t].seen, "solar_kw")) = 1
        /\ thr[t].result.solar_kw.n = 1
        /\ thr[t].result.solar_kw.std = 0
        /\ thr[t].result.load_kw.n = 2
        /\ thr[t].result.load_kw.mean = 2750
        /\ thr[t].result.load_kw.std = 1061
        /\ DOMAIN thr[t].result.wind_kw = {}

\* rolling_stats has returned for the empty window of a fresh pipeline
C27_EmptyWindowReached ==
    \E t \in Done("rolling_stats") :
        /\ thr[t].seen = <<>>
        /\ \A f \in DOMAIN thr[t].result : DOMAIN thr[t].result[f] = {}

---------------------------------------------------------------------------
\* Properties of the bin history (SpecHistory)

\* the ingested readings averaged into the bins kept, and those that are
\* neither among them nor in the buffer: the readings of the bins evicted
InKeptBins ==
    UNION {{agg_members[b][i] : i \in DOMAIN agg_members[b]} :
           b \in DOMAIN agg_members}

Evicted ==
    (DOMAIN hist \ InKeptBins)
        \ {agg_buf_ids[i] : i \in DOMAIN agg_buf_ids}

\* the history holds at most AGGS_MAXLEN bins
AggsBounded == Len(aggs) <= AGGS_MAXLEN

\* the bins evicted are the oldest: every reading of an evicted bin was
\* ingested before every reading of a kept bin
OldestBinEvictedFirst == \A k \in Evicted : \A m \in InKeptBins : k < m

\* the q of bins is in chronological order
Chronological(q) ==
    \A a, b \in DOMAIN q : a < b => q[a].timestamp <= q[b].timestamp

\* aggregates(n) returns the last min(n, number of bins) bins, in
\* chronological order
AggregatesReturnsLastN ==
    \A t \in Done("aggregates") :
        /\ Contents(thr[t].result) =
               LastN(thr[t].seen, Min(thr[t].n, Len(thr[t].seen)))
        /\ Chronological(Contents(thr[t].result))

\* C25: after any sequence of ingests the aggregate history holds at most 288
\* bins, the oldest bin is the one evicted, and aggregates(n) returns up to
\* the last n bins in chronological order (non-decreasing bin timestamps).
C25_BinHistoryBoundedAndOrdered ==
    /\ InCritical = {} =>
          /\ AggsBounded
          /\ OldestBinEvictedFirst
          /\ Chronological(aggs)
    /\ AggregatesReturnsLastN

\* a bin has been evicted from a full history and aggregates(1) has returned
\* the newest bin
C25_EvictionReached ==
    \E t \in Done("aggregates") :
        /\ Len(aggs) = AGGS_MAXLEN
        /\ Evicted # {}
        /\ thr[t].n = 1
        /\ Contents(thr[t].result) = <<aggs[AGGS_MAXLEN]>>

---------------------------------------------------------------------------
\* Properties of the recommendations (SpecRecs)

\* the list returned has an entry with this action and priority
Has(recs, action, priority) ==
    \E i \in DOMAIN recs :
        recs[i].action = action /\ recs[i].priority = priority

\* the five rule conditions on the input args, as the claim's five rules
ChargingFires ==
    /\ args.reading.battery_power_kw > Kw(5)
    /\ args.reading.battery_soc_pct < Pct(80)

CriticalImportFires ==
    /\ args.reading.battery_soc_pct < Pct(20)
    /\ args.reading.grid_import_kw > Kw(5)

PrechargeFires ==
    /\ args.forecast_surplus_kwh > 10
    /\ args.reading.battery_soc_pct < Pct(60)

CurtailFires ==
    /\ 10 * args.reading.total_generation_kw > 13 * args.reading.load_kw
    /\ args.reading.battery_soc_pct > Pct(85)

ShiftLoadFires ==
    /\ args.hour_utc \in {9, 10, 11}
    /\ args.reading.load_kw > Kw(50)
    /\ args.reading.total_generation_kw < Kw(20)

RulesFiring ==
    (IF ChargingFires THEN 1 ELSE 0) + (IF CriticalImportFires THEN 1 ELSE 0)
    + (IF PrechargeFires THEN 1 ELSE 0) + (IF CurtailFires THEN 1 ELSE 0)
    + (IF ShiftLoadFires THEN 1 ELSE 0)

\* C31: generate_recommendations never returns an empty list; it returns the
\* single entry OPTIMAL exactly when none of the five rules fires, OPTIMAL
\* never stands with another recommendation, and each rule's entry is in the
\* list exactly when that rule's own condition on reading, forecast and hour
\* holds, whether or not other rules fired.
C31_OptimalOnlyWhenNoRuleFires ==
    \A i \in DOMAIN calls :
        LET recs == calls[i].recs
        IN  /\ recs # <<>>
            /\ Has(recs, "OPTIMAL", "LOW") <=> RulesFiring = 0
            /\ Has(recs, "OPTIMAL", "LOW") => Len(recs) = 1
            /\ Has(recs, "CHARGE", "LOW") <=> ChargingFires
            /\ Has(recs, "IMPORT", "HIGH") <=> CriticalImportFires
            /\ Has(recs, "CHARGE", "MEDIUM") <=> PrechargeFires
            /\ Has(recs, "CURTAIL", "LOW") <=> CurtailFires
            /\ Has(recs, "SHIFT_LOAD", "MEDIUM") <=> ShiftLoadFires
            /\ Len(recs) = Max(1, RulesFiring)

\* C31 witness: one call in which four rules fired together (charging,
\* critical import, pre-charge and load shift) and none of them is OPTIMAL.
C31_Witness ==
    /\ calls # <<>>
    /\ Len(calls[1].recs) = 4
    /\ ChargingFires /\ CriticalImportFires /\ PrechargeFires /\ ShiftLoadFires
    /\ ~Has(calls[1].recs, "OPTIMAL", "LOW")

\* a call in which no rule fired has returned the single OPTIMAL entry
C31_OptimalReached ==
    /\ calls # <<>>
    /\ RulesFiring = 0
    /\ calls[1].recs = <<[action |-> "OPTIMAL", priority |-> "LOW"]>>

---------------------------------------------------------------------------
\* Power conservation of the dispatch result (SpecOpt)

\* the curtailed power a result states: the amount its CURTAILING_GEN tag
\* carries, 0 under every other strategy; in fine units
CurtailedPower(r) ==
    IF r.strategy = "CURTAILING_GEN" THEN r.curtailed_kw * 10 * PwScale ELSE 0

\* generation - load - battery_power_kw - (grid_export_kw - grid_import_kw
\* + curtailed power), in fine units
Imbalance(r) ==
    Surplus - r.battery_power_kw * PwScale
    - (r.grid_export_kw - r.grid_import_kw) * PwScale - CurtailedPower(r)

\* C32 (as claimed): every dispatch result conserves power, generation - load
\* - battery_power_kw = grid_export_kw - grid_import_kw + curtailed power,
\* with curtailed power 0 unless the strategy is a curtailment tag, in AUTO
\* and in both manual modes.
C32_PowerConserved ==
    \A r \in Results : Imbalance(r) = 0

\* C32 (amended): every dispatch result conserves power to the precision of
\* the figures it returns.  With generation and load in whole hundredths of a
\* kW and no curtailment the balance is exact; otherwise it is off by less
\* than 0.01 kW, the rounding of the returned powers, and under a curtailment
\* tag by no more than 0.055 kW, the tag carrying the curtailed amount to one
\* decimal.  Curtailed power is 0 unless the strategy is a curtailment tag.
C32_PowerConservedToReturnedPrecision ==
    \A r \in Results :
        /\ r.strategy # "CURTAILING_GEN" => r.curtailed_kw = 0
        /\ r.strategy # "CURTAILING_GEN" => Abs(Imbalance(r)) < PwScale
        /\ r.strategy # "CURTAILING_GEN" /\ Surplus % PwScale = 0
               => Imbalance(r) = 0
        /\ r.strategy = "CURTAILING_GEN"
               => 2 * Abs(Imbalance(r)) <= 11 * PwScale

\* C32 witness: an AUTO call with a deficit in whole hundredths of a kW whose
\* discharge is limited by the SOC above the floor to a power that is not a
\* hundredth of a kW; battery power and import are both positive in
\* magnitude and balance the deficit exactly.
C32_Witness ==
    /\ args.mode = "AUTO"
    /\ Surplus < 0
    /\ Surplus % PwScale = 0
    /\ discharge_limit(args.soc, args.cap) % PwScale # 0
    /\ discharge_limit(args.soc, args.cap) < Min(-Surplus, args.max_pw)
    /\ \E r \in Results :
           /\ r.battery_power_kw < 0
           /\ r.grid_import_kw > 0
           /\ Imbalance(r) = 0

\* a curtailed result whose tag amount differs from the power curtailed
C32_CurtailedReached ==
    \E r \in Results : r.strategy = "CURTAILING_GEN" /\ Imbalance(r) # 0

---------------------------------------------------------------------------
\* Direction of the SOC updates (SpecGrid)

\* C33 (as claimed): across any interleaving of simulated ticks and external
\* ingests the SOC moves only in the direction of the applied battery power:
\* an update whose dispatch result has battery_power_kw >= 0 never lowers the
\* SOC and one with battery_power_kw <= 0 never raises it.
C33_SocFollowsBatteryPower ==
    lastUpdate.path # "none" =>
        /\ lastUpdate.bp >= 0 => lastUpdate.new >= lastUpdate.base
        /\ lastUpdate.bp <= 0 => lastUpdate.new <= lastUpdate.base

\* the same for the updates written from an SOC inside the tick's band
\* [5, 95] that is a whole hundredth of a percent
C33_FollowsWithinTickBand ==
    (/\ lastUpdate.path # "none"
     /\ InBand(lastUpdate.base, 5, 95)
     /\ lastUpdate.base % SocCenti = 0) =>
        /\ lastUpdate.bp >= 0 => lastUpdate.new >= lastUpdate.base
        /\ lastUpdate.bp <= 0 => lastUpdate.new <= lastUpdate.base

\* a tick that follows an ingest has lowered the SOC while its dispatch
\* result charges the battery
C33_ChargingTickLowersSoc ==
    /\ nUpdates = 2
    /\ lastUpdate.path = "tick"
    /\ lastUpdate.bp > 0
    /\ lastUpdate.new < lastUpdate.base

---------------------------------------------------------------------------
\* The tick's clamp against the optimizer's headroom limits (SpecGrid)

\* C34 (as claimed): on the simulated tick path, starting from an SOC within
\* [5, 95], the clamp never truncates the delta: the SOC the tick writes is
\* the old SOC plus battery_power x dt x efficiency / capacity x 100 (rounded
\* to 0.01 % as the tick stores it), so a reported charging or discharging
\* power is always stored or drawn.
C34_ClampNeverTruncates ==
    (lastUpdate.path = "tick" /\ InBand(lastUpdate.base, 5, 95)) =>
        lastUpdate.new = tick_soc_unclamped(lastUpdate.base, lastUpdate.bp)

\* the first update of a run is a tick that starts at 95 %, reports a
\* charging power and stores nothing
C34_ChargeNotStored ==
    /\ nUpdates = 1
    /\ lastUpdate.path = "tick"
    /\ lastUpdate.base = Pct(95)
    /\ lastUpdate.bp > 0
    /\ lastUpdate.new = lastUpdate.base

\* the discharging side: a tick that starts inside the band and discharges
\* writes the whole delta
C34_DischargeDrawn ==
    (/\ lastUpdate.path = "tick"
     /\ InBand(lastUpdate.base, 5, 95)
     /\ lastUpdate.bp <= 0) =>
        lastUpdate.new = tick_soc_unclamped(lastUpdate.base, lastUpdate.bp)

---------------------------------------------------------------------------
\* Import labels and the import they announce (SpecOpt)

ImportLabels == {"GRID_IMPORT_SAVE_BATTERY", "PEAK_GRID_IMPORT_WARNING"}

\* C35 (as claimed): a strategy label that names a grid import is returned
\* only together with an actual import: whenever the strategy is
\* GRID_IMPORT_SAVE_BATTERY or PEAK_GRID_IMPORT_WARNING, grid_import_kw > 0,
\* the boundary case surplus = 0 included.
C35_ImportLabelMeansImport ==
    \A r \in Results : r.strategy \in ImportLabels => r.grid_import_kw > 0

\* with generation equal to load the save-battery label has been returned
\* with no import
C35_SaveBatteryAtZeroSurplus ==
    /\ args.mode = "AUTO"
    /\ Surplus = 0
    /\ \E r \in Results :
           /\ r.strategy = "GRID_IMPORT_SAVE_BATTERY"
           /\ r.grid_import_kw = 0

\* away from the boundary the labels come with an import: with a deficit of
\* 0.01 kW or more no import label is returned with grid_import_kw = 0
C35_HoldsOffBoundary ==
    \A r \in Results :
        (Surplus <= -PwScale /\ r.strategy \in ImportLabels)
            => r.grid_import_kw > 0

---------------------------------------------------------------------------
\* Readings that lack a monitored field (SpecAnomaly)

\* C36 (as claimed): a new reading that lacks a monitored field (solar_kw,
\* wind_kw, load_kw or grid_import_kw) never produces an anomaly flag for
\* that field, whatever the buffered history of the field is.
C36_NoFlagForMissingField ==
    \A f \in MonitoredFields \ DOMAIN NewReading : f \notin FlaggedFields

\* an ingested reading without the field has been flagged for it, with the
\* value 0.0 the reading does not carry
C36_MissingFieldFlagged ==
    /\ Len(AfterBurst) > 0
    /\ \E i \in DOMAIN flags :
           /\ flags[i].field \notin DOMAIN NewReading
           /\ flags[i].value = 0

---------------------------------------------------------------------------
\* Flushes and the cutoff (SpecPipe)

\* the step is an ingest, of the reading and at the time that hist' records
IngestStep == Len(hist') = Len(hist) + 1

\* the step has flushed: the bin history has changed
FlushStep == aggs' # aggs

\* C37: a flush happens only in an ingest whose time is at or after the
\* active cutoff; each flush appends exactly one bin, empties the active
\* aggregation buffer and sets the cutoff to that ingest's time plus 5
\* minutes; an ingest that does not flush adds its reading to the buffer; the
\* first ingest only initialises the cutoff and never flushes; the cutoff
\* never decreases over any sequence of ingests.
C37_FlushAtCutoffOnly ==
    [][LET ts == hist'[Len(hist')].ts
       IN  /\ FlushStep => IngestStep
           /\ IngestStep =>
                /\ FlushStep =>
                      /\ agg_cutoff # None
                      /\ ts >= agg_cutoff
                      /\ Len(aggs') = Len(aggs) + 1
                      /\ SubSeq(aggs', 1, Len(aggs)) = aggs
                      /\ agg_buf' = <<>>
                      /\ agg_cutoff' = ts + AGGREGATE_MINUTES
                /\ ~FlushStep =>
                      /\ agg_buf' = Append(agg_buf, hist'[Len(hist')].reading)
                      /\ agg_cutoff # None => agg_cutoff' = agg_cutoff
                /\ agg_cutoff = None =>
                      /\ hist = <<>>
                      /\ ~FlushStep
                      /\ agg_cutoff' = ts + AGGREGATE_MINUTES
                /\ agg_cutoff # None => agg_cutoff' >= agg_cutoff
      ]_vars

\* C37 witness: the first ingest has initialised the cutoff without a flush,
\* an ingest before the cutoff has been buffered, and a third ingest, later
\* than the cutoff, has flushed the three readings into one bin, emptied the
\* buffer and set the cutoff 5 minutes after its own time.
C37_Witness ==
    /\ Len(hist) = 3
    /\ hist[2].ts < hist[1].ts + AGGREGATE_MINUTES
    /\ hist[3].ts > hist[1].ts + AGGREGATE_MINUTES
    /\ Len(aggs) = 1
    /\ agg_buf = <<>>
    /\ agg_cutoff = hist[3].ts + AGGREGATE_MINUTES

---------------------------------------------------------------------------
\* Every reading reaches a bin (SpecLive)

\* the k-th ingested reading is in the active aggregation buffer
InBuffer(k) == \E i \in DOMAIN agg_buf_ids : agg_buf_ids[i] = k

\* the k-th ingested reading is one of the readings a flushed bin averages
InBin(k) ==
    \E b \in DOMAIN agg_members :
        \E i \in DOMAIN agg_members[b] : agg_members[b][i] = k

\* C38: if ingests keep arriving and time keeps advancing, every ingested
\* reading is eventually summarised in a flushed Aggregate Bin, and once it
\* is, it is no longer in the active aggregation buffer: no reading stays in
\* the buffer forever.
C38_EveryReadingReachesABin ==
    \A k \in 1..(MaxLive + 1) :
        /\ (Len(hist) >= k) ~> (InBin(k) /\ ~InBuffer(k))
        /\ InBuffer(k) ~> ~InBuffer(k)

\* C38 witness: three readings were ingested before the cutoff and waited in
\* the buffer; the clock has passed the cutoff and a fourth ingest has flushed
\* all four into one bin, leaving the buffer empty.
C38_Witness ==
    /\ Len(hist) = 4
    /\ hist[3].ts < hist[1].ts + AGGREGATE_MINUTES
    /\ hist[4].ts >= hist[1].ts + AGGREGATE_MINUTES
    /\ agg_buf = <<>>
    /\ \A k \in 1..4 : InBin(k)
    /\ Len(aggs) = 1

\* between ingests every ingested reading is in the buffer or in one bin
C38_BufferedOrBinned ==
    \A k \in 1..Len(hist) : InBuffer(k) # InBin(k)

---------------------------------------------------------------------------
\* The grid figure and the rounded battery power (SpecOpt)

\* the export of the surplus branch as computed from the returned battery
\* power, capped at the ceiling
ExportFromRounded(r) ==
    Min(GRID_MAX_EXPORT_KW * 100,
        Round2(Max(0, Surplus - r.battery_power_kw * PwScale)))

\* the import of the deficit branch as computed from the returned battery
\* power (negative when discharging)
ImportFromRounded(r) ==
    Round2(Max(0, -Surplus + r.battery_power_kw * PwScale))

\* C39 (as claimed): in both AUTO branches the grid figure is computed from
\* the already-rounded battery power, so battery_power_kw, grid_import_kw and
\* grid_export_kw as returned satisfy the power balance exactly at 2-decimal
\* precision: the export is round(surplus - battery_power_kw, 2) up to the
\* ceiling and the import is round(deficit + battery_power_kw, 2).
C39_GridFromRoundedBattery ==
    \A r \in Results :
        args.mode = "AUTO" =>
            /\ Surplus > 0 => r.grid_export_kw = ExportFromRounded(r)
            /\ Surplus <= 0 => r.grid_import_kw = ImportFromRounded(r)

\* the surplus branch alone does as claimed
C39_ExportFromRoundedCharge ==
    \A r \in Results :
        (args.mode = "AUTO" /\ Surplus > 0) =>
            r.grid_export_kw = ExportFromRounded(r)

\* a deficit call has returned an import 0.01 kW below the one the returned
\* battery power gives
C39_ImportFromUnroundedDischarge ==
    /\ args.mode = "AUTO"
    /\ Surplus < 0
    /\ \E r \in Results :
           /\ r.battery_power_kw < 0
           /\ r.grid_import_kw = ImportFromRounded(r) - 1

=============================================================================
